---- MODULE Spec2Model ----
(***************************************************************************)
(* Device Finance policy backend: the device lifecycle state machine with  *)
(* idempotent event ingestion (app/main.py), the data model and transition *)
(* table (app/models.py) and the lock-rate circuit breaker (app/safety.py).*)
(*                                                                         *)
(* Spec        the HTTP handlers called one after another, with the clock  *)
(*             advancing between calls.                                    *)
(* SpecBreaker a CircuitBreaker object driven directly, as the unit tests  *)
(*             of app/safety.py drive it.                                  *)
(* SpecLocks   a fleet in GRACE_PERIOD hit by a storm of events.            *)
(* SpecRetire  the fleet in GRACE_PERIOD decommissioned and deleted.        *)
(* SpecStorm   two worker threads handling lock-producing events of a      *)
(*             fleet in GRACE_PERIOD at the same time.                     *)
(* SpecClients one client per serial, each sending its own sequence of     *)
(*             events, in any interleaving.                                *)
(* SpecCanary  the CanaryRollout object driven method by method.           *)
(* SpecConc    two worker threads inside handle_event at the same time,    *)
(*             one step per access to the module-level stores.             *)
(***************************************************************************)
EXTENDS Integers, Sequences, FiniteSets, TLC

(***************************************************************************)
(* Bounds of the model.                                                    *)
(***************************************************************************)
\* longest audit log a handler is allowed to extend
MaxAudit == 4
\* number of command ids uuid4 hands out
MaxIds == 2
\* last instant of the clock
MaxTime == 2
\* acknowledged entries the command queue may hold
MaxAcked == 1
\* the lock storm: the longest audit log an event and an emergency unlock
\* are allowed to extend, the last command id and the last instant of the
\* clock
MaxLockAudit == 7
MaxUnlockAudit == 9
MaxLockIds == 5
MaxLockTime == 3
\* longest audit log, and last command id, of the fleet going out of service
MaxRetireAudit == 7
MaxRetireIds == 5
\* longest audit log the concurrent lock-producing requests may reach
MaxStormAudit == 6
\* the longest sequence of events one client sends
MaxScript == 2
\* the largest error rate and heartbeat-loss rate reported, in percent
MaxRate == 6
\* longest audit log the concurrent requests are allowed to reach
MaxConcAudit == 3
\* the stand-alone breaker: record_lock calls between two resets, the last
\* instant of its clock, and the largest configuration values it is built with
MaxLocks == 3
MaxBreakerTime == 4
MaxThreshold == 2
MaxWindow == 2
MaxCooldown == 2
\* configuration of the singleton breaker of app/main.py (the dataclass
\* defaults are 50, 300 and 600; tests/test_api.py sets the threshold to 3)
ApiMaxLocks == 1
ApiWindow == 1
ApiCooldown == 1

(***************************************************************************)
(* Inputs.                                                                 *)
(***************************************************************************)
Serials == {"SN1", "SN2"}
\* Optional[str] = None
None == "<None>"
TxnIds == {"T1"}
\* the transaction_id values a payload carries: absent, or an id
TxnInputs == {None} \cup TxnIds
Actors == {"system"}
Reasons == {"emergency"}

(***************************************************************************)
(* app/models.py                                                           *)
(***************************************************************************)
DeviceState ==
    { "PROVISIONING", "ACTIVE", "GRACE_PERIOD", "SOFT_LOCKED", "HARD_LOCKED",
      "SUSPENDED", "PAID_OFF", "STOLEN_LOCKED", "DECOMMISSIONED" }

EventType ==
    { "dpc.enrolled", "payment.received", "payment.overdue",
      "payment.completed", "grace.expired", "escalation.timeout",
      "admin.suspend", "admin.reinstate", "admin.report_stolen",
      "admin.recover", "admin.decommission", "provisioning.failed" }

CommandType == { "LOCK", "UNLOCK", "WIPE", "SET_RESTRICTIONS" }

\* the dict VALID_TRANSITIONS: (state, event) -> state
VALID_TRANSITIONS ==
    (<<"PROVISIONING", "dpc.enrolled">> :> "ACTIVE") @@
    (<<"PROVISIONING", "provisioning.failed">> :> "DECOMMISSIONED") @@
    (<<"ACTIVE", "payment.overdue">> :> "GRACE_PERIOD") @@
    (<<"ACTIVE", "payment.completed">> :> "PAID_OFF") @@
    (<<"ACTIVE", "admin.suspend">> :> "SUSPENDED") @@
    (<<"ACTIVE", "admin.report_stolen">> :> "STOLEN_LOCKED") @@
    (<<"GRACE_PERIOD", "payment.received">> :> "ACTIVE") @@
    (<<"GRACE_PERIOD", "grace.expired">> :> "SOFT_LOCKED") @@
    (<<"SOFT_LOCKED", "payment.received">> :> "ACTIVE") @@
    (<<"SOFT_LOCKED", "escalation.timeout">> :> "HARD_LOCKED") @@
    (<<"HARD_LOCKED", "payment.received">> :> "ACTIVE") @@
    (<<"HARD_LOCKED", "admin.suspend">> :> "SUSPENDED") @@
    (<<"HARD_LOCKED", "admin.report_stolen">> :> "STOLEN_LOCKED") @@
    (<<"SUSPENDED", "admin.reinstate">> :> "ACTIVE") @@
    (<<"STOLEN_LOCKED", "admin.recover">> :> "SUSPENDED")

(***************************************************************************)
(* app/main.py: policy templates and the state -> command map              *)
(***************************************************************************)
RestrictionKeys == {"no_usb", "no_camera", "no_install_apps"}

\* a restrictions dict with the three keys
Restr(usb, camera, install) ==
    [k \in RestrictionKeys |->
        IF k = "no_usb" THEN usb ELSE IF k = "no_camera" THEN camera ELSE install]

\* the empty dict {}
EmptyDict == [k \in {} |-> FALSE]

Template(r, msg, pkgs) ==
    [restrictions |-> r, lock_screen_message |-> msg, protected_packages |-> pkgs]

FintechApp == <<"com.example.fintechapp">>

POLICY_TEMPLATES ==
    [s \in DeviceState |->
        CASE s = "ACTIVE" ->
               Template(Restr(FALSE, FALSE, FALSE), "", FintechApp)
          [] s = "GRACE_PERIOD" ->
               Template(Restr(FALSE, FALSE, FALSE),
                        "Payment overdue. Please pay to avoid restrictions.",
                        FintechApp)
          [] s = "SOFT_LOCKED" ->
               Template(Restr(TRUE, TRUE, TRUE),
                        "Device restricted due to missed payment. Pay now to restore access.",
                        FintechApp)
          [] s = "HARD_LOCKED" ->
               Template(Restr(TRUE, TRUE, TRUE),
                        "Device locked. Contact support or make payment to unlock.",
                        FintechApp)
          [] s = "SUSPENDED" ->
               Template(Restr(TRUE, TRUE, TRUE),
                        "Device suspended. Contact support.", FintechApp)
          [] s = "STOLEN_LOCKED" ->
               Template(Restr(TRUE, TRUE, TRUE),
                        "This device has been reported. Contact authorities.",
                        FintechApp)
          [] s = "PAID_OFF" ->
               Template(Restr(FALSE, FALSE, FALSE), "", <<>>)
          [] s = "PROVISIONING" ->
               Template(Restr(TRUE, FALSE, TRUE), "Setup in progress.", FintechApp)
          [] s = "DECOMMISSIONED" ->
               Template(EmptyDict, "Device decommissioned.", <<>>)]

\* seeded fault: DECOMMISSIONED is missing from the mapping
_state_to_command_noWipe(state) ==
    CASE state \in {"ACTIVE", "PAID_OFF"} -> "UNLOCK"
      [] state \in {"SOFT_LOCKED", "HARD_LOCKED", "SUSPENDED", "STOLEN_LOCKED"} -> "LOCK"
      [] OTHER -> None

\* _state_to_command: mapping.get(state); None for GRACE_PERIOD and for
\* PROVISIONING, which is no key of the mapping
_state_to_command(state) ==
    CASE state \in {"ACTIVE", "PAID_OFF"} -> "UNLOCK"
      [] state \in {"SOFT_LOCKED", "HARD_LOCKED", "SUSPENDED", "STOLEN_LOCKED"} -> "LOCK"
      [] state = "DECOMMISSIONED" -> "WIPE"
      [] OTHER -> None

(***************************************************************************)
(* app/safety.py: CircuitBreaker.  A breaker is the record of its three    *)
(* dataclass fields; Optional[float] is the empty or the one-element       *)
(* sequence.  Every method takes the value time.time() returns to it; one  *)
(* call reads the clock at one instant.                                    *)
(***************************************************************************)
\* CircuitBreaker(max_locks_in_window, window_seconds, cooldown_seconds)
CircuitBreaker(max_locks, window, cooldown) ==
    [max_locks_in_window |-> max_locks, window_seconds |-> window,
     cooldown_seconds |-> cooldown,
     _lock_timestamps |-> <<>>, _tripped_at |-> <<>>, _state |-> "CLOSED"]

\* CircuitBreaker.reset
reset(cb) ==
    [cb EXCEPT !._state = "CLOSED", !._tripped_at = <<>>, !._lock_timestamps = <<>>]

\* CircuitBreaker._trip
_trip(cb, t) ==
    [cb EXCEPT !._state = "OPEN", !._tripped_at = <<t>>]

\* seeded fault: the breaker resets at the cooldown instant itself
_maybe_auto_reset_atCooldown(cb, t) ==
    IF /\ cb._state = "OPEN"
       /\ cb.cooldown_seconds > 0
       /\ cb._tripped_at # <<>>
       /\ t - cb._tripped_at[1] >= cb.cooldown_seconds
    THEN reset(cb)
    ELSE cb

\* CircuitBreaker._maybe_auto_reset
_maybe_auto_reset(cb, t) ==
    IF /\ cb._state = "OPEN"
       /\ cb.cooldown_seconds > 0
       /\ cb._tripped_at # <<>>
       /\ t - cb._tripped_at[1] > cb.cooldown_seconds
    THEN reset(cb)
    ELSE cb

\* seeded fault: a timestamp exactly at the cutoff is kept
InWindow_inclusive(timestamps, cutoff) ==
    SelectSeq(timestamps, LAMBDA x : x >= cutoff)

\* [t for t in self._lock_timestamps if t > cutoff]
InWindow(timestamps, cutoff) ==
    SelectSeq(timestamps, LAMBDA x : x > cutoff)

\* seeded fault: the breaker trips only past the threshold
ThresholdReached_exceeds(cb) ==
    Len(cb._lock_timestamps) > cb.max_locks_in_window

\* len(self._lock_timestamps) >= self.max_locks_in_window
ThresholdReached(cb) ==
    Len(cb._lock_timestamps) >= cb.max_locks_in_window

\* CircuitBreaker.record_lock
record_lock(cb, t) ==
    LET cutoff == t - cb.window_seconds
        cb1 == [cb EXCEPT !._lock_timestamps =
                              InWindow(Append(cb._lock_timestamps, t), cutoff)]
    IN  IF ThresholdReached(cb1) THEN _trip(cb1, t) ELSE cb1

\* seeded fault: allow_lock counts the attempt it is asked about
allow_lock_effect_counts(cb, t) ==
    [_maybe_auto_reset(cb, t) EXCEPT !._lock_timestamps = Append(@, t)]

\* CircuitBreaker.allow_lock: the breaker it leaves, and what it returns
allow_lock_effect(cb, t) == _maybe_auto_reset(cb, t)

allow_lock(cb, t) == allow_lock_effect(cb, t)._state # "OPEN"

\* CircuitBreaker.state (a property that may auto-reset)
state_effect(cb, t) == _maybe_auto_reset(cb, t)

state(cb, t) == state_effect(cb, t)._state

\* CircuitBreaker.current_count
current_count(cb, t) ==
    Len(InWindow(cb._lock_timestamps, t - cb.window_seconds))

(***************************************************************************)
(* app/safety.py: CanaryRollout.  Rates and thresholds are counted in      *)
(* percent: the default thresholds 0.02 and 0.05 are 2 and 5.              *)
(***************************************************************************)
stages ==
    << [name |-> "CANARY", percent |-> 1, observation_hours |-> 24],
       [name |-> "STAGED", percent |-> 10, observation_hours |-> 24],
       [name |-> "BROAD", percent |-> 50, observation_hours |-> 12],
       [name |-> "GA", percent |-> 100, observation_hours |-> 0] >>

error_rate_threshold == 2

heartbeat_loss_threshold == 5

\* CanaryRollout()
CanaryRollout ==
    [stages |-> stages,
     error_rate_threshold |-> error_rate_threshold,
     heartbeat_loss_threshold |-> heartbeat_loss_threshold,
     _current_stage_index |-> 0, _version |-> "", _active |-> FALSE]

\* self.stages[i]: Python lists count from 0
StageAt(c, i) == c.stages[i + 1]

\* CanaryRollout.start_rollout: the object it leaves, and what it returns
start_rollout_effect(c, version) ==
    [c EXCEPT !._version = version, !._current_stage_index = 0, !._active = TRUE]

start_rollout(c, version) ==
    [version |-> version, stage |-> StageAt(c, 0).name,
     percent |-> StageAt(c, 0).percent]

\* CanaryRollout._rollback; the reason is the text with its two formatted
\* numbers
\* seeded fault: a rollback leaves the rollout active
_rollback_effect_staysActive(c) == c

_rollback_effect(c) == [c EXCEPT !._active = FALSE]

_rollback(c, reason) ==
    [status |-> "rolled_back", version |-> c._version,
     stage |-> StageAt(c, c._current_stage_index).name, reason |-> reason]

\* seeded fault: the error-rate threshold is exclusive
ErrorRateBreached_exclusive(c, error_rate) ==
    error_rate > c.error_rate_threshold

\* error_rate >= self.error_rate_threshold
ErrorRateBreached(c, error_rate) == error_rate >= c.error_rate_threshold

\* heartbeat_loss_rate >= self.heartbeat_loss_threshold
HeartbeatBreached(c, heartbeat_loss_rate) ==
    heartbeat_loss_rate >= c.heartbeat_loss_threshold

\* seeded fault: a healthy evaluation at BROAD completes the rollout
LastStage_early(c) == Len(c.stages) - 2

\* len(self.stages) - 1
LastStage(c) == Len(c.stages) - 1

\* CanaryRollout.evaluate_and_advance: the object it leaves
evaluate_and_advance_effect(c, error_rate, heartbeat_loss_rate) ==
    IF ~c._active
    THEN c
    ELSE IF ErrorRateBreached(c, error_rate)
    THEN _rollback_effect(c)
    ELSE IF HeartbeatBreached(c, heartbeat_loss_rate)
    THEN _rollback_effect(c)
    ELSE IF c._current_stage_index < LastStage(c)
    THEN [c EXCEPT !._current_stage_index = @ + 1]
    ELSE [c EXCEPT !._active = FALSE]

\* CanaryRollout.evaluate_and_advance: what it returns
evaluate_and_advance(c, error_rate, heartbeat_loss_rate) ==
    IF ~c._active
    THEN [status |-> "no_active_rollout"]
    ELSE IF ErrorRateBreached(c, error_rate)
    THEN _rollback(c, <<"Error rate", error_rate, ">=", c.error_rate_threshold>>)
    ELSE IF HeartbeatBreached(c, heartbeat_loss_rate)
    THEN _rollback(c, <<"Heartbeat loss", heartbeat_loss_rate, ">=",
                        c.heartbeat_loss_threshold>>)
    ELSE IF c._current_stage_index < LastStage(c)
    THEN [status |-> "promoted", version |-> c._version,
          stage |-> StageAt(c, c._current_stage_index + 1).name,
          percent |-> StageAt(c, c._current_stage_index + 1).percent]
    ELSE [status |-> "ga_complete", version |-> c._version]

\* CanaryRollout.current_status
current_status(c) ==
    IF ~c._active
    THEN [active |-> FALSE]
    ELSE [active |-> TRUE, version |-> c._version,
          stage |-> StageAt(c, c._current_stage_index).name,
          percent |-> StageAt(c, c._current_stage_index).percent]

(***************************************************************************)
(* A Python dict keeps insertion order: a sequence of key/value pairs with *)
(* no key twice.                                                           *)
(***************************************************************************)
HasKey(d, k) == \E i \in 1..Len(d) : d[i].key = k

IndexOf(d, k) == CHOOSE i \in 1..Len(d) : d[i].key = k

\* d.get(k, default)
DictGet(d, k, default) ==
    IF HasKey(d, k) THEN d[IndexOf(d, k)].value ELSE default

\* d[k] = v
DictSet(d, k, v) ==
    IF HasKey(d, k)
    THEN [d EXCEPT ![IndexOf(d, k)].value = v]
    ELSE Append(d, [key |-> k, value |-> v])

\* del d[k]
DictDel(d, k) == SelectSeq(d, LAMBDA e : e.key # k)

(***************************************************************************)
(* State.                                                                  *)
(***************************************************************************)
VARIABLES
    \* app/main.py module-level stores
    devices,          \* dict serial_number -> DeviceState
    audit_log,        \* list of AuditRecord
    command_queue,    \* list of CommandEntry
    processed_txns,   \* set of transaction ids
    \* app/safety.py singleton
    circuit_breaker,
    \* environment
    now,              \* the clock time.time() reads
    next_id,          \* the next id uuid4 hands out
    \* the last call: which handler, and its response
    op, resp,
    \* history: per serial, the transitions committed since it was last
    \* deleted, by handle_event and by emergency_unlock
    committed,
    \* history: the payloads with a transaction id whose call returned
    \* "ok", in the order the calls returned
    applied,
    \* history: the instants of the record_lock calls since the breaker was
    \* constructed or last reset
    recorded,
    \* history: how the breaker was last reset ("none", "manual", "auto")
    last_reset,
    \* the request threads of the server: where each one stands in
    \* handle_event, with its local variables
    threads,
    \* app/safety.py singleton
    canary_rollout,
    \* history: the statuses evaluate_and_advance returned on the active
    \* rollout since the last start_rollout
    rollout_log,
    \* the clients of the backend, one per serial: the events each one sends
    \* in order, how many it has sent, and whether a call was refused (503)
    clients

stores == <<devices, audit_log, command_queue, processed_txns>>

vars == <<devices, audit_log, command_queue, processed_txns, circuit_breaker,
          now, next_id, op, resp, committed, applied, recorded, last_reset, threads,
          canary_rollout, rollout_log, clients>>

canary == <<canary_rollout, rollout_log>>

NoCall == [none |-> TRUE]

\* clients with nothing to send
NoClients ==
    [script |-> [sn \in Serials |-> <<>>], sent |-> [sn \in Serials |-> 0],
     refused |-> FALSE]

\* the worker threads of the thread pool that runs the handlers
Threads == {1, 2}

\* a thread between calls
Idle == [pc |-> "idle"]

Init ==
    /\ devices = <<>>
    /\ audit_log = <<>>
    /\ command_queue = <<>>
    /\ processed_txns = {}
    /\ circuit_breaker = CircuitBreaker(ApiMaxLocks, ApiWindow, ApiCooldown)
    /\ now = 0
    /\ next_id = 1
    /\ op = "init"
    /\ resp = NoCall
    /\ committed = [s \in Serials |-> [event |-> 0, emergency |-> 0]]
    /\ applied = <<>>
    /\ recorded = <<>>
    /\ last_reset = "none"
    /\ threads = [t \in Threads |-> Idle]
    /\ canary_rollout = CanaryRollout
    /\ rollout_log = <<>>
    /\ clients = NoClients

\* the history of record_lock calls once a method has run the auto-reset
\* check at instant t: forgotten when the check resets the breaker
SinceReset(cb, t) ==
    IF _maybe_auto_reset(cb, t)._state # cb._state THEN <<>> ELSE recorded

\* how the breaker was last reset once a method has run the auto-reset
\* check at instant t
ResetKind(cb, t) ==
    IF _maybe_auto_reset(cb, t)._state # cb._state THEN "auto" ELSE last_reset

(***************************************************************************)
(* POST /event: handle_event                                               *)
(***************************************************************************)
\* if payload.transaction_id: (None and "" are falsy)
Truthy(txn) == txn # None /\ txn # ""

\* payload.transaction_id and payload.transaction_id in processed_txns
IsDuplicate(txn, txns) == Truthy(txn) /\ txn \in txns

\* seeded fault: the state of the first device of the dict is read, whatever
\* the serial
CurrentState_firstDevice(d, sn) ==
    IF d = <<>> THEN "PROVISIONING" ELSE d[1].value

\* devices.get(sn, DeviceState.PROVISIONING)
CurrentState(d, sn) == DictGet(d, sn, "PROVISIONING")

Invalid == "<409>"

\* seeded fault: the table is looked up by the event alone, whatever the
\* current state
NewState_byEventOnly(current_state, event_type) ==
    IF event_type = "admin.decommission"
    THEN "DECOMMISSIONED"
    ELSE IF \A k \in DOMAIN VALID_TRANSITIONS : k[2] # event_type
         THEN Invalid
         ELSE VALID_TRANSITIONS[CHOOSE k \in DOMAIN VALID_TRANSITIONS : k[2] = event_type]

\* seeded fault: admin.reinstate brings a decommissioned device back
NewState_reinstatesDecommissioned(current_state, event_type) ==
    IF event_type = "admin.decommission"
    THEN "DECOMMISSIONED"
    ELSE IF <<current_state, event_type>> = <<"DECOMMISSIONED", "admin.reinstate">>
         THEN "ACTIVE"
         ELSE IF <<current_state, event_type>> \notin DOMAIN VALID_TRANSITIONS
              THEN Invalid
              ELSE VALID_TRANSITIONS[<<current_state, event_type>>]

\* the transition decision: the new state, or Invalid for the HTTP 409
NewState(current_state, event_type) ==
    IF event_type = "admin.decommission"
    THEN "DECOMMISSIONED"
    ELSE IF <<current_state, event_type>> \notin DOMAIN VALID_TRANSITIONS
         THEN Invalid
         ELSE VALID_TRANSITIONS[<<current_state, event_type>>]

\* seeded fault: only the soft lock consults the breaker
IsLockTransition_softOnly(new_state) == new_state = "SOFT_LOCKED"

\* seeded fault: a suspension consults the breaker too
IsLockTransition_withSuspended(new_state) ==
    new_state \in {"SOFT_LOCKED", "HARD_LOCKED", "SUSPENDED"}

\* new_state in (SOFT_LOCKED, HARD_LOCKED)
IsLockTransition(new_state) == new_state \in {"SOFT_LOCKED", "HARD_LOCKED"}

\* seeded fault: the record is built after current_state was overwritten
EventAudit_fromNewState(sn, current_state, new_state, payload) ==
    [serial_number |-> sn, from_state |-> new_state, to_state |-> new_state,
     event |-> payload.event_type, actor |-> payload.actor,
     transaction_id |-> payload.transaction_id]

\* AuditRecord(...) of handle_event (the timestamp field is left out)
EventAudit(sn, current_state, new_state, payload) ==
    [serial_number |-> sn, from_state |-> current_state, to_state |-> new_state,
     event |-> payload.event_type, actor |-> payload.actor,
     transaction_id |-> payload.transaction_id]

\* seeded fault: a state without a command gets a SET_RESTRICTIONS entry
EnqueueCommand_always(queue, sn, new_state, id) ==
    LET cmd == _state_to_command(new_state)
    IN  Append(queue,
               [id |-> id, serial_number |-> sn,
                command |-> IF cmd # None THEN cmd ELSE "SET_RESTRICTIONS",
                payload |-> POLICY_TEMPLATES[new_state].restrictions,
                acknowledged |-> FALSE])

\* the command queue after the "Enqueue command to device" block (created_at
\* is left out)
EnqueueCommand(queue, sn, new_state, id) ==
    LET cmd == _state_to_command(new_state)
    IN  IF cmd # None
        THEN Append(queue,
                    [id |-> id, serial_number |-> sn, command |-> cmd,
                     payload |-> POLICY_TEMPLATES[new_state].restrictions,
                     acknowledged |-> FALSE])
        ELSE queue

\* seeded fault: the transaction id is never recorded
MarkTxn_forgets(txns, txn) == txns

\* processed_txns after "if payload.transaction_id: processed_txns.add(...)"
MarkTxn(txns, txn) == IF Truthy(txn) THEN txns \cup {txn} ELSE txns

Bump(c, sn, kind) == [c EXCEPT ![sn][kind] = @ + 1]

\* seeded fault: the idempotency check is made after the transition lookup
Outcome_lookupFirst(payload) ==
    LET new_state ==
            NewState(CurrentState(devices, payload.serial_number), payload.event_type)
    IN  IF new_state = Invalid
        THEN "409"
        ELSE IF IsDuplicate(payload.transaction_id, processed_txns)
        THEN "duplicate"
        ELSE IF IsLockTransition(new_state) /\ ~allow_lock(circuit_breaker, now)
        THEN "503"
        ELSE "ok"

\* which way handle_event leaves: the checks in the order the code makes them
Outcome(payload) ==
    LET new_state ==
            NewState(CurrentState(devices, payload.serial_number), payload.event_type)
    IN  IF IsDuplicate(payload.transaction_id, processed_txns)
        THEN "duplicate"
        ELSE IF new_state = Invalid
        THEN "409"
        ELSE IF IsLockTransition(new_state) /\ ~allow_lock(circuit_breaker, now)
        THEN "503"
        ELSE "ok"

\* handle_event, extending the audit log up to max_audit records and handing
\* out ids up to max_ids
handle_event_upto(payload, max_audit, max_ids) ==
    LET sn == payload.serial_number
        current_state == CurrentState(devices, sn)
        new_state == NewState(current_state, payload.event_type)
        outcome == Outcome(payload)
    IN
    /\ op' = "handle_event"
    /\ UNCHANGED now
    /\ \/ /\ outcome = "duplicate"
          /\ resp' = [status |-> "duplicate",
                      transaction_id |-> payload.transaction_id]
          /\ UNCHANGED <<devices, audit_log, command_queue, processed_txns,
                         circuit_breaker, next_id, committed, applied, recorded, last_reset>>
       \/ /\ outcome = "409"
          /\ resp' = [status |-> "409"]
          /\ UNCHANGED <<devices, audit_log, command_queue, processed_txns,
                         circuit_breaker, next_id, committed, applied, recorded, last_reset>>
       \/ /\ outcome = "503"
          /\ resp' = [status |-> "503"]
          /\ circuit_breaker' = allow_lock_effect(circuit_breaker, now)
          /\ UNCHANGED <<devices, audit_log, command_queue, processed_txns,
                         next_id, committed, applied, recorded, last_reset>>
       \/ /\ outcome = "ok"
          /\ Len(audit_log) < max_audit
          /\ _state_to_command(new_state) # None => next_id <= max_ids
          /\ circuit_breaker' =
               IF IsLockTransition(new_state)
               THEN record_lock(allow_lock_effect(circuit_breaker, now), now)
               ELSE circuit_breaker
          /\ devices' = DictSet(devices, sn, new_state)
          /\ audit_log' =
               Append(audit_log, EventAudit(sn, current_state, new_state, payload))
          /\ command_queue' = EnqueueCommand(command_queue, sn, new_state, next_id)
          /\ next_id' =
               IF _state_to_command(new_state) # None THEN next_id + 1 ELSE next_id
          /\ processed_txns' = MarkTxn(processed_txns, payload.transaction_id)
          /\ resp' = [status |-> "ok", serial_number |-> sn,
                      from_state |-> current_state, to_state |-> new_state,
                      event |-> payload.event_type]
          /\ committed' = Bump(committed, sn, "event")
          /\ applied' =
               IF Truthy(payload.transaction_id)
               THEN Append(applied, payload)
               ELSE applied
          /\ recorded' =
               IF IsLockTransition(new_state)
               THEN Append(SinceReset(circuit_breaker, now), now)
               ELSE recorded
          /\ last_reset' =
               IF IsLockTransition(new_state)
               THEN ResetKind(circuit_breaker, now)
               ELSE last_reset

handle_event(payload) == handle_event_upto(payload, MaxAudit, MaxIds)

EventPayload ==
    [serial_number : Serials, event_type : EventType,
     transaction_id : TxnInputs, actor : Actors]

HandleEvent ==
    \E payload \in EventPayload : handle_event(payload) /\ UNCHANGED <<threads, canary, clients>>

(***************************************************************************)
(* POST /commands/{command_id}/ack: ack_command                            *)
(***************************************************************************)
\* seeded fault: the newest entry is acknowledged, whatever its id
AckFirst_last(queue, command_id) ==
    IF \E i \in 1..Len(queue) : queue[i].id = command_id
    THEN [queue EXCEPT ![Len(queue)].acknowledged = TRUE]
    ELSE queue

\* the queue after the loop: the first entry with this id is acknowledged
AckFirst(queue, command_id) ==
    LET hits == {i \in 1..Len(queue) : queue[i].id = command_id}
    IN  IF hits = {}
        THEN queue
        ELSE LET first == CHOOSE i \in hits : \A j \in hits : i <= j
             IN  [queue EXCEPT ![first].acknowledged = TRUE]

\* number of acknowledged entries in the queue
Acknowledged(queue) ==
    Cardinality({i \in 1..Len(queue) : queue[i].acknowledged})

ack_command(command_id) ==
    /\ Acknowledged(AckFirst(command_queue, command_id)) <= MaxAcked
    /\ op' = "ack_command"
    /\ IF \E i \in 1..Len(command_queue) : command_queue[i].id = command_id
       THEN /\ command_queue' = AckFirst(command_queue, command_id)
            /\ resp' = [status |-> "ok", command_id |-> command_id]
       ELSE /\ resp' = [status |-> "404"]
            /\ UNCHANGED command_queue
    /\ UNCHANGED <<devices, audit_log, processed_txns, circuit_breaker, now,
                   next_id, committed, applied, recorded, last_reset>>

\* the ids a caller may send: every id uuid4 may hand out
CommandIds == 1..MaxIds

AckCommand ==
    \E command_id \in CommandIds : ack_command(command_id) /\ UNCHANGED <<threads, canary, clients>>

(***************************************************************************)
(* DELETE /device/{serial_number}: delete_device                           *)
(***************************************************************************)
\* seeded fault: the comprehension filters nothing out
WithoutSerial_keepsAll(list, sn) == list

\* [r for r in audit_log if r.serial_number != serial_number], and the same
\* comprehension over command_queue
WithoutSerial(list, sn) == SelectSeq(list, LAMBDA r : r.serial_number # sn)

\* seeded fault: the count does not look at the serial
CountSerial_all(list, sn) == Len(list)

\* len([r for r in ... if r.serial_number == serial_number])
CountSerial(list, sn) ==
    Cardinality({i \in 1..Len(list) : list[i].serial_number = sn})

\* seeded fault: the transaction ids of the deleted device are forgotten
delete_device_forgetsTxns(sn) ==
    /\ op' = "delete_device"
    /\ IF ~HasKey(devices, sn)
       THEN /\ resp' = [status |-> "404"]
            /\ UNCHANGED <<devices, audit_log, command_queue, committed,
                           processed_txns>>
       ELSE /\ devices' = DictDel(devices, sn)
            /\ audit_log' = WithoutSerial(audit_log, sn)
            /\ command_queue' = WithoutSerial(command_queue, sn)
            /\ resp' = [status |-> "ok", serial_number |-> sn,
                        removed_audit_records |-> CountSerial(audit_log, sn),
                        removed_commands |-> CountSerial(command_queue, sn)]
            /\ committed' = [committed EXCEPT ![sn] = [event |-> 0, emergency |-> 0]]
            /\ processed_txns' =
                 processed_txns \
                   { audit_log[i].transaction_id :
                       i \in { k \in DOMAIN audit_log :
                                 audit_log[k].serial_number = sn } }
    /\ UNCHANGED <<circuit_breaker, now, next_id, applied, recorded, last_reset>>

delete_device(sn) ==
    /\ op' = "delete_device"
    /\ IF ~HasKey(devices, sn)
       THEN /\ resp' = [status |-> "404"]
            /\ UNCHANGED <<devices, audit_log, command_queue, committed>>
       ELSE /\ devices' = DictDel(devices, sn)
            /\ audit_log' = WithoutSerial(audit_log, sn)
            /\ command_queue' = WithoutSerial(command_queue, sn)
            /\ resp' = [status |-> "ok", serial_number |-> sn,
                        removed_audit_records |-> CountSerial(audit_log, sn),
                        removed_commands |-> CountSerial(command_queue, sn)]
            /\ committed' = [committed EXCEPT ![sn] = [event |-> 0, emergency |-> 0]]
    /\ UNCHANGED <<processed_txns, circuit_breaker, now, next_id, applied,
                   recorded, last_reset>>

DeleteDevice ==
    \E sn \in Serials : delete_device(sn) /\ UNCHANGED <<threads, canary, clients>>

(***************************************************************************)
(* POST /admin/emergency-unlock: emergency_unlock                          *)
(***************************************************************************)
\* seeded fault: stolen devices are unlocked too
locked_states_withStolen ==
    {"SOFT_LOCKED", "HARD_LOCKED", "SUSPENDED", "STOLEN_LOCKED"}

\* seeded fault: suspended devices are left alone
locked_states_noSuspended == {"SOFT_LOCKED", "HARD_LOCKED"}

\* seeded fault: decommissioned devices are unlocked too
locked_states_withDecommissioned ==
    {"SOFT_LOCKED", "HARD_LOCKED", "SUSPENDED", "DECOMMISSIONED"}

locked_states == {"SOFT_LOCKED", "HARD_LOCKED", "SUSPENDED"}

\* AuditRecord(...) of emergency_unlock (the timestamp field is left out;
\* transaction_id keeps its default)
EmergencyAudit(sn, old_state, reason) ==
    [serial_number |-> sn, from_state |-> old_state, to_state |-> "ACTIVE",
     event |-> "admin.reinstate", actor |-> "emergency:" \o reason,
     transaction_id |-> None]

\* the loop over list(devices.items()), from item i on: the devices, audit
\* log and unlocked list it leaves
RECURSIVE UnlockFrom(_, _, _)
UnlockFrom(i, acc, reason) ==
    IF i > Len(acc.devices)
    THEN acc
    ELSE LET item == acc.devices[i]
         IN  IF item.value \in locked_states
             THEN UnlockFrom(
                    i + 1,
                    [devices  |-> [acc.devices EXCEPT ![i].value = "ACTIVE"],
                     audit    |-> Append(acc.audit,
                                         EmergencyAudit(item.key, item.value, reason)),
                     unlocked |-> Append(acc.unlocked, item.key)],
                    reason)
             ELSE UnlockFrom(i + 1, acc, reason)

\* emergency_unlock, extending the audit log up to max_audit records
emergency_unlock_upto(reason, max_audit) ==
    LET done == UnlockFrom(1, [devices |-> devices, audit |-> audit_log,
                               unlocked |-> <<>>], reason)
    IN
    /\ Len(done.audit) <= max_audit
    /\ op' = "emergency_unlock"
    /\ devices' = done.devices
    /\ audit_log' = done.audit
    /\ circuit_breaker' = reset(circuit_breaker)
    /\ resp' = [status |-> "ok", unlocked_count |-> Len(done.unlocked),
                unlocked_devices |-> done.unlocked, reason |-> reason]
    /\ committed' =
         [s \in Serials |->
            IF \E i \in 1..Len(done.unlocked) : done.unlocked[i] = s
            THEN [committed[s] EXCEPT !.emergency = @ + 1]
            ELSE committed[s]]
    /\ recorded' = <<>>
    /\ last_reset' = "manual"
    /\ UNCHANGED <<command_queue, processed_txns, now, next_id, applied>>

emergency_unlock(reason) == emergency_unlock_upto(reason, MaxAudit)

EmergencyUnlock ==
    \E reason \in Reasons : emergency_unlock(reason) /\ UNCHANGED <<threads, canary, clients>>

(***************************************************************************)
(* The reads: GET /policy, GET /commands, GET /audit.  Each computes its   *)
(* response from the stores and changes none of them.                      *)
(***************************************************************************)
\* seeded fault: the template of ACTIVE is returned for every state
PolicyResponse_activeTemplate(d, serial_number) ==
    IF ~HasKey(d, serial_number)
    THEN [status |-> "404"]
    ELSE LET template == POLICY_TEMPLATES["ACTIVE"]
         IN  [serial_number |-> serial_number,
              device_state |-> DictGet(d, serial_number, None),
              restrictions |-> template.restrictions,
              lock_screen_message |-> template.lock_screen_message,
              protected_packages |-> template.protected_packages]

\* what get_policy answers on the dict d: 404 when the serial has no state,
\* else PolicyResponse(serial_number, device_state, **template)
PolicyResponse(d, serial_number) ==
    IF ~HasKey(d, serial_number)
    THEN [status |-> "404"]
    ELSE LET state_ == DictGet(d, serial_number, None)
             template == POLICY_TEMPLATES[state_]
         IN  [serial_number |-> serial_number,
              device_state |-> state_,
              restrictions |-> template.restrictions,
              lock_screen_message |-> template.lock_screen_message,
              protected_packages |-> template.protected_packages]

\* seeded fault: acknowledged entries are returned as well
pending_withAcknowledged(queue, serial_number) ==
    SelectSeq(queue, LAMBDA c : c.serial_number = serial_number)

\* [c for c in command_queue
\*    if c.serial_number == serial_number and not c.acknowledged]
pending(queue, serial_number) ==
    SelectSeq(queue,
              LAMBDA c : c.serial_number = serial_number /\ ~c.acknowledged)

\* [r.model_dump() for r in audit_log if r.serial_number == serial_number]
records(log, serial_number) ==
    SelectSeq(log, LAMBDA r : r.serial_number = serial_number)

Read(name, response) ==
    /\ op' = name
    /\ resp' = response
    /\ UNCHANGED <<devices, audit_log, command_queue, processed_txns,
                   circuit_breaker, now, next_id, committed, applied,
                   recorded, last_reset>>

get_policy(serial_number) ==
    Read("get_policy", PolicyResponse(devices, serial_number))

get_commands(serial_number) ==
    Read("get_commands",
         [serial_number |-> serial_number,
          commands |-> pending(command_queue, serial_number)])

get_audit(serial_number) ==
    Read("get_audit",
         [serial_number |-> serial_number,
          records |-> records(audit_log, serial_number)])

GetPolicy == \E sn \in Serials : get_policy(sn) /\ UNCHANGED <<threads, canary, clients>>

GetCommands == \E sn \in Serials : get_commands(sn) /\ UNCHANGED <<threads, canary, clients>>

GetAudit == \E sn \in Serials : get_audit(sn) /\ UNCHANGED <<threads, canary, clients>>

(***************************************************************************)
(* The clock.                                                              *)
(***************************************************************************)
\* Only the breaker reads the clock: the instants at which it remembers
\* nothing are not counted.
Tick ==
    /\ now < MaxTime
    /\ \/ circuit_breaker._lock_timestamps # <<>>
       \/ circuit_breaker._tripped_at # <<>>
    /\ now' = now + 1
    /\ op' = "tick"
    /\ resp' = NoCall
    /\ UNCHANGED <<devices, audit_log, command_queue, processed_txns,
                   circuit_breaker, next_id, committed, applied, recorded, last_reset,
                   threads, canary, clients>>

Next ==
    \/ HandleEvent
    \/ AckCommand
    \/ DeleteDevice
    \/ EmergencyUnlock
    \/ GetPolicy
    \/ GetCommands
    \/ GetAudit
    \/ Tick

Spec == Init /\ [][Next]_vars

(***************************************************************************)
(* A CircuitBreaker object on its own: constructed with some configuration *)
(* and driven method by method, the clock advancing between calls.         *)
(***************************************************************************)
BreakerConfigs ==
    { CircuitBreaker(m, w, c) :
        m \in 1..MaxThreshold, w \in 1..MaxWindow, c \in 0..MaxCooldown }

InitBreaker ==
    /\ devices = <<>>
    /\ audit_log = <<>>
    /\ command_queue = <<>>
    /\ processed_txns = {}
    /\ circuit_breaker \in BreakerConfigs
    /\ now = 0
    /\ next_id = 1
    /\ op = "init"
    /\ resp = NoCall
    /\ committed = [s \in Serials |-> [event |-> 0, emergency |-> 0]]
    /\ applied = <<>>
    /\ recorded = <<>>
    /\ last_reset = "none"
    /\ threads = [t \in Threads |-> Idle]
    /\ canary_rollout = CanaryRollout
    /\ rollout_log = <<>>
    /\ clients = NoClients

api == <<devices, audit_log, command_queue, processed_txns, next_id,
         committed, applied, threads, canary, clients>>

\* cb.record_lock()
BreakerRecordLock ==
    /\ Len(recorded) < MaxLocks
    /\ op' = "record_lock"
    /\ resp' = NoCall
    /\ circuit_breaker' = record_lock(circuit_breaker, now)
    /\ recorded' = Append(recorded, now)
    /\ UNCHANGED last_reset
    /\ UNCHANGED <<api, now>>

\* cb.allow_lock()
BreakerAllowLock ==
    /\ op' = "allow_lock"
    /\ resp' = [value |-> allow_lock(circuit_breaker, now)]
    /\ circuit_breaker' = allow_lock_effect(circuit_breaker, now)
    /\ recorded' = SinceReset(circuit_breaker, now)
    /\ last_reset' = ResetKind(circuit_breaker, now)
    /\ UNCHANGED <<api, now>>

\* cb.state
BreakerState ==
    /\ op' = "state"
    /\ resp' = [value |-> state(circuit_breaker, now)]
    /\ circuit_breaker' = state_effect(circuit_breaker, now)
    /\ recorded' = SinceReset(circuit_breaker, now)
    /\ last_reset' = ResetKind(circuit_breaker, now)
    /\ UNCHANGED <<api, now>>

\* cb.current_count
BreakerCurrentCount ==
    /\ op' = "current_count"
    /\ resp' = [value |-> current_count(circuit_breaker, now)]
    /\ UNCHANGED <<api, now, circuit_breaker, recorded, last_reset>>

\* cb.reset()
BreakerReset ==
    /\ op' = "reset"
    /\ resp' = NoCall
    /\ circuit_breaker' = reset(circuit_breaker)
    /\ recorded' = <<>>
    /\ last_reset' = "manual"
    /\ UNCHANGED <<api, now>>

BreakerTick ==
    /\ now < MaxBreakerTime
    /\ now' = now + 1
    /\ op' = "tick"
    /\ resp' = NoCall
    /\ UNCHANGED <<api, circuit_breaker, recorded, last_reset>>

NextBreaker ==
    \/ BreakerRecordLock
    \/ BreakerAllowLock
    \/ BreakerState
    \/ BreakerCurrentCount
    \/ BreakerReset
    \/ BreakerTick

SpecBreaker == InitBreaker /\ [][NextBreaker]_vars

(***************************************************************************)
(* A lock storm: the fleet is in GRACE_PERIOD (every serial was enrolled   *)
(* and went overdue, one serial after the other), the breaker singleton    *)
(* has some configuration, as the tests set it, and events arrive while    *)
(* the clock advances.                                                     *)
(***************************************************************************)
SystemPayload(sn, event_type) ==
    [serial_number |-> sn, event_type |-> event_type,
     transaction_id |-> None, actor |-> "system"]

\* the audit records of one serial enrolled and gone overdue
GraceAudit(sn) ==
    << EventAudit(sn, "PROVISIONING", "ACTIVE", SystemPayload(sn, "dpc.enrolled")),
       EventAudit(sn, "ACTIVE", "GRACE_PERIOD", SystemPayload(sn, "payment.overdue")) >>

\* the configurations of the singleton: each threshold, with and without
\* a cooldown
LockConfigs ==
    { CircuitBreaker(m, MaxWindow, c) :
        m \in 1..MaxThreshold, c \in {0, MaxCooldown} }

InitLocks ==
    /\ devices = << [key |-> "SN1", value |-> "GRACE_PERIOD"],
                    [key |-> "SN2", value |-> "GRACE_PERIOD"] >>
    /\ audit_log = GraceAudit("SN1") \o GraceAudit("SN2")
    /\ command_queue =
         EnqueueCommand(EnqueueCommand(<<>>, "SN1", "ACTIVE", 1), "SN2", "ACTIVE", 2)
    /\ processed_txns = {}
    /\ circuit_breaker \in LockConfigs
    /\ now = 0
    /\ next_id = 3
    /\ op = "init"
    /\ resp = NoCall
    /\ committed = [s \in Serials |-> [event |-> 2, emergency |-> 0]]
    /\ applied = <<>>
    /\ recorded = <<>>
    /\ last_reset = "none"
    /\ threads = [t \in Threads |-> Idle]
    /\ canary_rollout = CanaryRollout
    /\ rollout_log = <<>>
    /\ clients = NoClients

\* the events of the storm carry no transaction id
LockPayload ==
    [serial_number : Serials, event_type : EventType,
     transaction_id : {None}, actor : Actors]

LockEvent ==
    \E payload \in LockPayload :
        /\ handle_event_upto(payload, MaxLockAudit, MaxLockIds)
        /\ UNCHANGED <<threads, canary, clients>>

LockTick ==
    /\ now < MaxLockTime
    /\ now' = now + 1
    /\ op' = "tick"
    /\ resp' = NoCall
    /\ UNCHANGED <<devices, audit_log, command_queue, processed_txns,
                   circuit_breaker, next_id, committed, applied, recorded,
                   last_reset, threads, canary, clients>>

LockEmergencyUnlock ==
    \E reason \in Reasons :
        /\ emergency_unlock_upto(reason, MaxUnlockAudit)
        /\ UNCHANGED <<threads, canary, clients>>

NextLocks == LockEvent \/ LockEmergencyUnlock \/ LockTick

SpecLocks == InitLocks /\ [][NextLocks]_vars

(***************************************************************************)
(* handle_event run by the thread pool.  The handler is a plain def, so    *)
(* the framework runs each request on a worker thread; the module has no   *)
(* lock, so between any two accesses to the module-level stores another    *)
(* thread may run.  One action per access, in the order of the code.       *)
(***************************************************************************)
\* the events the concurrent requests carry: the path into SOFT_LOCKED, and
\* the event that is valid in every state
ConcEventType ==
    {"dpc.enrolled", "payment.overdue", "grace.expired", "admin.decommission"}

ConcPayload == {payload \in EventPayload : payload.event_type \in ConcEventType}

InFlight == Cardinality({t \in Threads : threads[t].pc # "idle"})

Goto(t, label) == [threads EXCEPT ![t].pc = label]

Return(t) == [threads EXCEPT ![t] = Idle]

\* a request arrives and its thread runs the idempotency check
ConcCheck_upto(t, payload, max_audit) ==
    /\ threads[t].pc = "idle"
    /\ Len(audit_log) + InFlight < max_audit
    /\ threads' =
         IF IsDuplicate(payload.transaction_id, processed_txns)
         THEN [threads EXCEPT ![t] = Idle]
         ELSE [threads EXCEPT ![t] = [pc |-> "read", payload |-> payload]]
    /\ UNCHANGED <<devices, audit_log, command_queue, processed_txns,
                   circuit_breaker, now, next_id, op, resp, canary, clients, committed,
                   applied, recorded, last_reset>>

\* current_state = devices.get(...), and the transition decision on it
ConcRead(t) ==
    /\ threads[t].pc = "read"
    /\ LET payload == threads[t].payload
           current_state == CurrentState(devices, payload.serial_number)
           new_state == NewState(current_state, payload.event_type)
       IN  threads' =
             IF new_state = Invalid
             THEN Return(t)
             ELSE [threads EXCEPT ![t] =
                     [pc |-> IF IsLockTransition(new_state)
                             THEN "allow" ELSE "write",
                      payload |-> payload,
                      current_state |-> current_state,
                      new_state |-> new_state]]
    /\ UNCHANGED <<devices, audit_log, command_queue, processed_txns,
                   circuit_breaker, now, next_id, op, resp, canary, clients, committed,
                   applied, recorded, last_reset>>

\* if not circuit_breaker.allow_lock(): raise 503
ConcAllow(t) ==
    /\ threads[t].pc = "allow"
    /\ circuit_breaker' = allow_lock_effect(circuit_breaker, now)
    /\ recorded' = SinceReset(circuit_breaker, now)
    /\ last_reset' = ResetKind(circuit_breaker, now)
    /\ threads' =
         IF allow_lock(circuit_breaker, now)
         THEN Goto(t, "record")
         ELSE Return(t)
    /\ UNCHANGED <<devices, audit_log, command_queue, processed_txns,
                   now, next_id, op, resp, canary, clients, committed, applied>>

\* circuit_breaker.record_lock()
ConcRecord(t) ==
    /\ threads[t].pc = "record"
    /\ circuit_breaker' = record_lock(circuit_breaker, now)
    /\ recorded' = Append(recorded, now)
    /\ UNCHANGED last_reset
    /\ threads' = Goto(t, "write")
    /\ UNCHANGED <<devices, audit_log, command_queue, processed_txns,
                   now, next_id, op, resp, canary, clients, committed, applied>>

\* devices[sn] = new_state
ConcWrite(t) ==
    /\ threads[t].pc = "write"
    /\ devices' = DictSet(devices, threads[t].payload.serial_number,
                          threads[t].new_state)
    /\ threads' = Goto(t, "audit")
    /\ UNCHANGED <<audit_log, command_queue, processed_txns, circuit_breaker,
                   now, next_id, op, resp, canary, clients, committed, applied, recorded, last_reset>>

\* audit_log.append(record)
ConcAudit(t) ==
    /\ threads[t].pc = "audit"
    /\ audit_log' =
         Append(audit_log,
                EventAudit(threads[t].payload.serial_number,
                           threads[t].current_state, threads[t].new_state,
                           threads[t].payload))
    /\ committed' = Bump(committed, threads[t].payload.serial_number, "event")
    /\ threads' = Goto(t, "enqueue")
    /\ UNCHANGED <<devices, command_queue, processed_txns, circuit_breaker,
                   now, next_id, op, resp, canary, clients, applied, recorded, last_reset>>

\* cmd = _state_to_command(new_state); if cmd: command_queue.append(entry)
ConcEnqueue(t) ==
    /\ threads[t].pc = "enqueue"
    /\ command_queue' =
         EnqueueCommand(command_queue, threads[t].payload.serial_number,
                        threads[t].new_state, next_id)
    /\ next_id' =
         IF _state_to_command(threads[t].new_state) # None
         THEN next_id + 1 ELSE next_id
    /\ threads' = Goto(t, "mark")
    /\ UNCHANGED <<devices, audit_log, processed_txns, circuit_breaker,
                   now, op, resp, canary, clients, committed, applied, recorded, last_reset>>

\* processed_txns.add(payload.transaction_id), and the response
ConcMark(t) ==
    /\ threads[t].pc = "mark"
    /\ processed_txns' =
         MarkTxn(processed_txns, threads[t].payload.transaction_id)
    /\ applied' =
         IF Truthy(threads[t].payload.transaction_id)
         THEN Append(applied, threads[t].payload)
         ELSE applied
    /\ threads' = Return(t)
    /\ UNCHANGED <<devices, audit_log, command_queue, circuit_breaker,
                   now, next_id, op, resp, canary, clients, committed, recorded, last_reset>>

ConcCheck(t, payload) == ConcCheck_upto(t, payload, MaxConcAudit)

ConcTick ==
    /\ now < MaxTime
    /\ \/ circuit_breaker._lock_timestamps # <<>>
       \/ circuit_breaker._tripped_at # <<>>
    /\ now' = now + 1
    /\ UNCHANGED <<devices, audit_log, command_queue, processed_txns,
                   circuit_breaker, next_id, op, resp, canary, clients, committed, applied,
                   recorded, last_reset, threads>>

NextConc ==
    \/ \E t \in Threads, payload \in ConcPayload : ConcCheck(t, payload)
    \/ \E t \in Threads : ConcRead(t)
    \/ \E t \in Threads : ConcAllow(t)
    \/ \E t \in Threads : ConcRecord(t)
    \/ \E t \in Threads : ConcWrite(t)
    \/ \E t \in Threads : ConcAudit(t)
    \/ \E t \in Threads : ConcEnqueue(t)
    \/ \E t \in Threads : ConcMark(t)
    \/ ConcTick

SpecConc == Init /\ [][NextConc]_vars

(***************************************************************************)
(* The fleet in GRACE_PERIOD hit by lock-producing events that two worker  *)
(* threads handle at the same time.                                        *)
(***************************************************************************)
StormPayload ==
    { SystemPayload(sn, event_type) :
        sn \in Serials, event_type \in {"grace.expired", "escalation.timeout"} }

NextStorm ==
    \/ \E t \in Threads, payload \in StormPayload :
          ConcCheck_upto(t, payload, MaxStormAudit)
    \/ \E t \in Threads : ConcRead(t)
    \/ \E t \in Threads : ConcAllow(t)
    \/ \E t \in Threads : ConcRecord(t)
    \/ \E t \in Threads : ConcWrite(t)
    \/ \E t \in Threads : ConcAudit(t)
    \/ \E t \in Threads : ConcEnqueue(t)
    \/ \E t \in Threads : ConcMark(t)
    \/ ConcTick

SpecStorm == InitLocks /\ [][NextStorm]_vars

(***************************************************************************)
(* The fleet in GRACE_PERIOD on its way out of service: every event, with  *)
(* and without a transaction id, emergency unlocks and deletions, called   *)
(* one after another.                                                      *)
(***************************************************************************)
\* the events sent to the fleet: into a lock state, out of service, and
\* two that the table allows in some state but not in DECOMMISSIONED
RetireEventType ==
    {"grace.expired", "admin.decommission", "admin.reinstate", "dpc.enrolled"}

RetirePayload ==
    [serial_number : Serials, event_type : RetireEventType,
     transaction_id : TxnInputs, actor : Actors]

RetireEvent ==
    \E payload \in RetirePayload :
        /\ handle_event_upto(payload, MaxRetireAudit, MaxRetireIds)
        /\ UNCHANGED <<threads, canary, clients>>

RetireEmergencyUnlock ==
    \E reason \in Reasons :
        /\ emergency_unlock_upto(reason, MaxRetireAudit)
        /\ UNCHANGED <<threads, canary, clients>>

RetireDelete ==
    \E sn \in Serials : delete_device(sn) /\ UNCHANGED <<threads, canary, clients>>

NextRetire == RetireEvent \/ RetireEmergencyUnlock \/ RetireDelete

SpecRetire == InitLocks /\ [][NextRetire]_vars

(***************************************************************************)
(* One client per serial, each sending a fixed sequence of events in       *)
(* order, the requests of different clients arriving in any order within   *)
(* one instant of the clock.                                               *)
(***************************************************************************)
\* the events the clients send: within and out of the locked states
ScriptEvents ==
    {"payment.received", "payment.overdue", "grace.expired",
     "escalation.timeout"}

Scripts ==
    UNION { [1..n -> ScriptEvents] : n \in 0..MaxScript }

InitClients ==
    /\ devices = << [key |-> "SN1", value |-> "GRACE_PERIOD"],
                    [key |-> "SN2", value |-> "GRACE_PERIOD"] >>
    /\ audit_log = GraceAudit("SN1") \o GraceAudit("SN2")
    /\ command_queue =
         EnqueueCommand(EnqueueCommand(<<>>, "SN1", "ACTIVE", 1), "SN2", "ACTIVE", 2)
    /\ processed_txns = {}
    /\ circuit_breaker \in LockConfigs
    /\ now = 0
    /\ next_id = 3
    /\ op = "init"
    /\ resp = NoCall
    /\ committed = [s \in Serials |-> [event |-> 2, emergency |-> 0]]
    /\ applied = <<>>
    /\ recorded = <<>>
    /\ last_reset = "none"
    /\ threads = [t \in Threads |-> Idle]
    /\ canary_rollout = CanaryRollout
    /\ rollout_log = <<>>
    /\ clients \in [script : [Serials -> Scripts],
                    sent : {[sn \in Serials |-> 0]}, refused : {FALSE}]

\* handle_event on the stores st = [devices, circuit_breaker] at instant t:
\* the stores it leaves
RunEvent(st, t, sn, event_type) ==
    LET current_state == CurrentState(st.devices, sn)
        new_state == NewState(current_state, event_type)
    IN  IF new_state = Invalid
        THEN st
        ELSE IF ~IsLockTransition(new_state)
        THEN [st EXCEPT !.devices = DictSet(st.devices, sn, new_state)]
        ELSE IF ~allow_lock(st.circuit_breaker, t)
        THEN [st EXCEPT !.circuit_breaker = allow_lock_effect(@, t)]
        ELSE [devices |-> DictSet(st.devices, sn, new_state),
              circuit_breaker |->
                record_lock(allow_lock_effect(st.circuit_breaker, t), t)]

\* one client sending its whole script, one call after the other
RECURSIVE RunScript(_, _, _, _)
RunScript(st, t, sn, script) ==
    IF script = <<>>
    THEN st
    ELSE RunScript(RunEvent(st, t, sn, Head(script)), t, sn, Tail(script))

\* the client of serial sn sends its next event
ClientSend(sn) ==
    /\ clients.sent[sn] < Len(clients.script[sn])
    /\ handle_event_upto(
         SystemPayload(sn, clients.script[sn][clients.sent[sn] + 1]),
         Len(audit_log) + 1, next_id)
    /\ clients' = [clients EXCEPT !.sent[sn] = @ + 1,
                                  !.refused = @ \/ resp'.status = "503"]
    /\ UNCHANGED <<threads, canary>>

NextClients == \E sn \in Serials : ClientSend(sn)

SpecClients == InitClients /\ [][NextClients]_vars

(***************************************************************************)
(* The CanaryRollout singleton driven method by method, as the unit tests  *)
(* of app/safety.py drive it.                                              *)
(***************************************************************************)
Versions == {"2.1.0", "2.2.0", "2.3.0"}

\* the rates a scheduled job reports, in percent
Rates == 0..MaxRate

backend == <<devices, audit_log, command_queue, processed_txns,
             circuit_breaker, now, next_id, committed, applied, recorded,
             last_reset, threads, clients>>

CanaryStart ==
    \E version \in Versions :
        /\ op' = "start_rollout"
        /\ resp' = start_rollout(canary_rollout, version)
        /\ canary_rollout' = start_rollout_effect(canary_rollout, version)
        /\ rollout_log' = <<>>
        /\ UNCHANGED backend

CanaryEvaluate ==
    \E error_rate \in Rates, heartbeat_loss_rate \in Rates :
        /\ op' = "evaluate_and_advance"
        /\ resp' = evaluate_and_advance(canary_rollout, error_rate,
                                        heartbeat_loss_rate)
        /\ canary_rollout' =
             evaluate_and_advance_effect(canary_rollout, error_rate,
                                         heartbeat_loss_rate)
        /\ rollout_log' =
             IF canary_rollout._active
             THEN Append(rollout_log, resp'.status)
             ELSE rollout_log
        /\ UNCHANGED backend

CanaryStatus ==
    /\ op' = "current_status"
    /\ resp' = current_status(canary_rollout)
    /\ UNCHANGED <<backend, canary>>

NextCanary == CanaryStart \/ CanaryEvaluate \/ CanaryStatus

SpecCanary == Init /\ [][NextCanary]_vars

(***************************************************************************)
(* The specification document's tables, as the properties below quote      *)
(* them.                                                                   *)
(***************************************************************************)
Range(seq) == {seq[i] : i \in DOMAIN seq}

\* spec.md section 3, "Transition table (complete)", without the wildcard row
TableRows ==
    { <<"PROVISIONING", "dpc.enrolled", "ACTIVE">>,
      <<"PROVISIONING", "provisioning.failed", "DECOMMISSIONED">>,
      <<"ACTIVE", "payment.overdue", "GRACE_PERIOD">>,
      <<"ACTIVE", "payment.completed", "PAID_OFF">>,
      <<"ACTIVE", "admin.suspend", "SUSPENDED">>,
      <<"ACTIVE", "admin.report_stolen", "STOLEN_LOCKED">>,
      <<"GRACE_PERIOD", "payment.received", "ACTIVE">>,
      <<"GRACE_PERIOD", "grace.expired", "SOFT_LOCKED">>,
      <<"SOFT_LOCKED", "payment.received", "ACTIVE">>,
      <<"SOFT_LOCKED", "escalation.timeout", "HARD_LOCKED">>,
      <<"HARD_LOCKED", "payment.received", "ACTIVE">>,
      <<"HARD_LOCKED", "admin.suspend", "SUSPENDED">>,
      <<"HARD_LOCKED", "admin.report_stolen", "STOLEN_LOCKED">>,
      <<"SUSPENDED", "admin.reinstate", "ACTIVE">>,
      <<"STOLEN_LOCKED", "admin.recover", "SUSPENDED">> }

\* (f, e) -> t is a row of the table, or e is the universal terminator
TableAllows(f, e, t) ==
    \/ <<f, e, t>> \in TableRows
    \/ e = "admin.decommission" /\ t = "DECOMMISSIONED"

\* spec.md section 3, "State -> Command map"
CommandStates ==
    { "ACTIVE", "PAID_OFF", "SOFT_LOCKED", "HARD_LOCKED", "SUSPENDED",
      "STOLEN_LOCKED", "DECOMMISSIONED" }

CommandOf(n) ==
    CASE n \in {"ACTIVE", "PAID_OFF"} -> "UNLOCK"
      [] n \in {"SOFT_LOCKED", "HARD_LOCKED", "SUSPENDED", "STOLEN_LOCKED"} -> "LOCK"
      [] n = "DECOMMISSIONED" -> "WIPE"

\* the recorded state of a serial, "PROVISIONING" when it has none
StateOf(d, sn) ==
    IF \E i \in 1..Len(d) : d[i].key = sn
    THEN d[CHOOSE i \in 1..Len(d) : d[i].key = sn].value
    ELSE "PROVISIONING"

Transitioned == op' = "handle_event" /\ resp'.status = "ok"

Repository == <<devices, audit_log, command_queue, processed_txns>>

C2_AuditWithinTable ==
    \A i \in 1..Len(audit_log) :
        TableAllows(audit_log[i].from_state, audit_log[i].event, audit_log[i].to_state)

\* an audit record as emergency_unlock writes it
IsEmergencyRecord(r) ==
    /\ r.from_state \in {"SOFT_LOCKED", "HARD_LOCKED", "SUSPENDED"}
    /\ r.event = "admin.reinstate"
    /\ r.to_state = "ACTIVE"
    /\ \E reason \in Reasons : r.actor = "emergency:" \o reason
    /\ r.transaction_id = None

\* C2 amended: every audit record is a row of the table or a decommission,
\* or it is a record of emergency_unlock, which takes a device from
\* SOFT_LOCKED, HARD_LOCKED or SUSPENDED to ACTIVE with event admin.reinstate
\* without consulting the table.
C2_AuditWithinTableOrEmergency ==
    \A i \in 1..Len(audit_log) :
        \/ TableAllows(audit_log[i].from_state, audit_log[i].event,
                       audit_log[i].to_state)
        \/ IsEmergencyRecord(audit_log[i])

C2_Witness ==
    \E i \in 1..Len(audit_log) :
        /\ IsEmergencyRecord(audit_log[i])
        /\ audit_log[i].from_state = "SOFT_LOCKED"
        /\ i > 1

\* C3: an event with a non-empty transaction_id that was applied
\* successfully, applied again at any later point, returns "duplicate" and
\* leaves device states, audit log, command queue and processed-transaction
\* set as they were.
C3_ReplayIsDuplicate ==
    [][\A p \in Range(applied) :
          handle_event(p) => resp'.status = "duplicate" /\ UNCHANGED Repository]_vars

C3_Witness ==
    /\ op = "handle_event"
    /\ resp.status = "duplicate"
    /\ \E p \in Range(applied) :
          /\ p.transaction_id = resp.transaction_id
          /\ \E i \in 1..Len(audit_log) :
                /\ audit_log[i].transaction_id = p.transaction_id
                /\ audit_log[i].serial_number = p.serial_number

\* C4: with requests handled concurrently, two handle_event calls carrying
\* the same non-empty transaction_id never both return "ok": no two calls
\* that returned "ok" carried the same transaction_id, and no two audit
\* records carry the same non-empty transaction_id.
C4_OneTransitionPerTxn ==
    /\ \A i, j \in DOMAIN applied :
          i # j => applied[i].transaction_id # applied[j].transaction_id
    /\ \A i, j \in DOMAIN audit_log :
          (i # j /\ Truthy(audit_log[i].transaction_id))
             => audit_log[i].transaction_id # audit_log[j].transaction_id

\* C5: a handle_event that fails with InvalidTransition (409) or CircuitOpen
\* (503) leaves every device state, the audit log, the command queue, the
\* processed-transaction set and the breaker unchanged.
C5_FailureChangesNothing ==
    [][(op' = "handle_event" /\ resp'.status \in {"409", "503"}) =>
          UNCHANGED <<Repository, circuit_breaker, next_id>>]_vars

C5_Witness ==
    /\ op = "handle_event"
    /\ resp.status = "503"
    /\ circuit_breaker._state = "OPEN"
    /\ \E i \in 1..Len(devices) : devices[i].value = "SOFT_LOCKED"

\* C6: whenever the event's transaction_id is already in the
\* processed-transaction set, handle_event returns "duplicate" whatever the
\* serial, event type, device state and breaker state are, and changes no
\* device state, audit record, command or breaker field.
C6_DuplicateCheckFirst ==
    [][\A p \in EventPayload :
          (/\ Truthy(p.transaction_id)
           /\ p.transaction_id \in processed_txns
           /\ handle_event(p))
          => /\ resp'.status = "duplicate"
             /\ UNCHANGED <<Repository, circuit_breaker, next_id>>]_vars

C6_Witness ==
    /\ op = "handle_event"
    /\ resp.status = "duplicate"
    /\ circuit_breaker._state = "OPEN"
    /\ \E p \in Range(applied) : ~HasKey(devices, p.serial_number)

\* C7: for every serial S the number of audit records of S equals the number
\* of transitions of S committed since S was last deleted (successful
\* handle_event calls plus emergency unlocks of S); a duplicate, an invalid
\* transition and a blocked lock commit nothing and add no record.
C7_AuditCoverage ==
    \A s \in Serials :
        CountSerial(audit_log, s) = committed[s].event + committed[s].emergency

C7_Witness ==
    /\ op = "handle_event"
    /\ resp.status = "409"
    /\ \E s \in Serials :
          /\ committed[s].event = 2
          /\ committed[s].emergency = 1
          /\ CountSerial(audit_log, s) = 3

CommandAudits(s) ==
    Cardinality({i \in 1..Len(audit_log) :
                    /\ audit_log[i].serial_number = s
                    /\ audit_log[i].to_state \in CommandStates})

\* C9 as claimed: for every serial S the number of command entries stored
\* for S equals the number of S's audit records whose to_state maps to a
\* command.
C9_CommandPerAuditRecord ==
    \A s \in Serials : CountSerial(command_queue, s) = CommandAudits(s)

\* C9 amended: the command entries stored for S are as many as S's audit
\* records whose to_state maps to a command, less the emergency unlocks of S
\* since it was last deleted: emergency_unlock records a transition to
\* ACTIVE and enqueues no command.
C9_CommandPerEventRecord ==
    \A s \in Serials :
        CountSerial(command_queue, s) = CommandAudits(s) - committed[s].emergency

C9_Witness ==
    \E s \in Serials :
        /\ committed[s].emergency = 1
        /\ CountSerial(command_queue, s) = 2
        /\ CommandAudits(s) = 3

(***************************************************************************)
(* Properties of the breaker on its own (SpecBreaker).                     *)
(***************************************************************************)
\* the record_lock calls among the first k whose instant is inside the window
\* that ends at instant t: later than t - window_seconds
InsideWindow(k, t) ==
    {i \in 1..k : recorded[i] > t - circuit_breaker.window_seconds}

\* all record_lock calls since the reset fall within one window: the last is
\* less than window_seconds after the first
WithinOneWindow ==
    \/ recorded = <<>>
    \/ recorded[Len(recorded)] - recorded[1] < circuit_breaker.window_seconds

CooldownExpired ==
    /\ circuit_breaker.cooldown_seconds > 0
    /\ now - circuit_breaker._tripped_at[1] > circuit_breaker.cooldown_seconds

\* C11: while the breaker is OPEN: once cooldown_seconds > 0 and more than
\* cooldown_seconds have passed since tripped_at, a read of state reports
\* CLOSED and allow_lock returns true, and either leaves the breaker CLOSED
\* with no lock timestamps and no tripped_at; before that, or with
\* cooldown_seconds = 0, a read of state reports OPEN, allow_lock returns
\* false, and every method but reset() leaves the breaker OPEN.
C11_AutoResetAfterCooldown ==
    [][circuit_breaker._state = "OPEN" =>
        /\ circuit_breaker._tripped_at # <<>>
        /\ CooldownExpired =>
             /\ op' = "state" => resp'.value = "CLOSED"
             /\ op' = "allow_lock" => resp'.value = TRUE
             /\ op' \in {"state", "allow_lock"} =>
                  /\ circuit_breaker'._state = "CLOSED"
                  /\ circuit_breaker'._lock_timestamps = <<>>
                  /\ circuit_breaker'._tripped_at = <<>>
        /\ ~CooldownExpired =>
             /\ op' = "state" => resp'.value = "OPEN"
             /\ op' = "allow_lock" => resp'.value = FALSE
             /\ op' # "reset" => circuit_breaker'._state = "OPEN"
    ]_vars

C11_Witness ==
    /\ op \in {"state", "allow_lock"}
    /\ last_reset = "auto"
    /\ circuit_breaker._state = "CLOSED"
    /\ circuit_breaker._lock_timestamps = <<>>
    /\ circuit_breaker.cooldown_seconds > 0
    /\ now > circuit_breaker.cooldown_seconds

(***************************************************************************)
(* Properties of the lock storm (SpecLocks).                               *)
(***************************************************************************)
\* the state the table, with its wildcard row, gives for state f and event
\* e; "<none>" where it has no row
TableTarget ==
    [f \in DeviceState, e \in EventType |->
        IF e = "admin.decommission"
        THEN "DECOMMISSIONED"
        ELSE IF \E r \in TableRows : r[1] = f /\ r[2] = e
        THEN (CHOOSE r \in TableRows : r[1] = f /\ r[2] = e)[3]
        ELSE "<none>"]

\* the payload has not been processed and the table sends its serial into
\* SOFT_LOCKED or HARD_LOCKED
LockAttempt(payload) ==
    /\ ~(Truthy(payload.transaction_id)
           /\ payload.transaction_id \in processed_txns)
    /\ TableTarget[StateOf(devices, payload.serial_number), payload.event_type]
          \in {"SOFT_LOCKED", "HARD_LOCKED"}

\* every record_lock since the last reset lies inside the window that ends
\* now, and the cooldown of an OPEN breaker has not expired
StormWithinWindow ==
    /\ recorded # <<>> => now - recorded[1] < circuit_breaker.window_seconds
    /\ circuit_breaker._state = "OPEN" => ~CooldownExpired

\* C12: counted from a reset of the breaker, with no cooldown expiry and all
\* within one window: a handle_event that enters SOFT_LOCKED or HARD_LOCKED
\* succeeds while fewer than max_locks_in_window such calls succeeded before
\* it, is recorded, and trips the breaker when it is the max-th; every later
\* one fails with 503, and no device state, audit record or command changes.
C12_FirstMaxLocksSucceed ==
    [][\A payload \in LockPayload :
          ( /\ StormWithinWindow
            /\ LockAttempt(payload)
            /\ handle_event_upto(payload, MaxLockAudit, MaxLockIds) )
          => IF Len(recorded) < circuit_breaker.max_locks_in_window
             THEN /\ resp'.status = "ok"
                  /\ StateOf(devices', payload.serial_number)
                        \in {"SOFT_LOCKED", "HARD_LOCKED"}
                  /\ Len(audit_log') = Len(audit_log) + 1
                  /\ recorded' = Append(recorded, now)
                  /\ circuit_breaker'._state = "OPEN"
                       <=> Len(recorded') = circuit_breaker.max_locks_in_window
             ELSE /\ resp'.status = "503"
                  /\ devices' = devices
                  /\ audit_log' = audit_log
                  /\ command_queue' = command_queue
    ]_vars

C12_Witness ==
    /\ op = "handle_event"
    /\ resp.status = "503"
    /\ circuit_breaker.max_locks_in_window = 2
    /\ Len(recorded) = 2
    /\ Len(audit_log) = 6
    /\ \A sn \in Serials : StateOf(devices, sn) = "SOFT_LOCKED"

\* the payload has not been processed and the table (or the decommission
\* rule) sends its serial into a state other than SOFT_LOCKED and HARD_LOCKED
OtherAttempt(payload) ==
    /\ ~(Truthy(payload.transaction_id)
           /\ payload.transaction_id \in processed_txns)
    /\ TableTarget[StateOf(devices, payload.serial_number), payload.event_type]
          \in DeviceState \ {"SOFT_LOCKED", "HARD_LOCKED"}

\* C13: a handle_event whose target state is not SOFT_LOCKED or HARD_LOCKED
\* succeeds whatever the breaker's state, OPEN included, and leaves the
\* breaker as it was: its state, its lock timestamps and its tripped_at.
C13_OtherTransitionsBypassBreaker ==
    [][\A payload \in LockPayload :
          ( /\ OtherAttempt(payload)
            /\ handle_event_upto(payload, MaxLockAudit, MaxLockIds) )
          => /\ resp'.status = "ok"
             /\ resp'.to_state \notin {"SOFT_LOCKED", "HARD_LOCKED"}
             /\ circuit_breaker'._state = circuit_breaker._state
             /\ circuit_breaker'._lock_timestamps
                   = circuit_breaker._lock_timestamps
             /\ circuit_breaker'._tripped_at = circuit_breaker._tripped_at
    ]_vars

C13_Witness ==
    /\ op = "handle_event"
    /\ resp.status = "ok"
    /\ resp.to_state = "STOLEN_LOCKED"
    /\ circuit_breaker._state = "OPEN"
    /\ circuit_breaker._lock_timestamps # <<>>

\* spec.md section 4.7: the states emergency_unlock acts on
UnlockedStates == {"SOFT_LOCKED", "HARD_LOCKED", "SUSPENDED"}

\* the records a step appended to the audit log
Appended == SubSeq(audit_log', Len(audit_log) + 1, Len(audit_log'))

\* C14: right after emergency_unlock(reason) no device is SOFT_LOCKED,
\* HARD_LOCKED or SUSPENDED; each device that was is ACTIVE and has exactly
\* one appended audit record (its old state -> ACTIVE, admin.reinstate,
\* actor "emergency:<reason>"); unlocked_count is the number of such devices;
\* the breaker is CLOSED with no recorded locks.
C14_EmergencyUnlockEffect ==
    [][op' = "emergency_unlock" =>
        LET was == {sn \in Serials : StateOf(devices, sn) \in UnlockedStates}
        IN  /\ \A sn \in Serials : StateOf(devices', sn) \notin UnlockedStates
            /\ \A sn \in was :
                  /\ StateOf(devices', sn) = "ACTIVE"
                  /\ Cardinality({i \in DOMAIN Appended :
                                    Appended[i].serial_number = sn}) = 1
                  /\ \E i \in DOMAIN Appended :
                        /\ Appended[i].serial_number = sn
                        /\ Appended[i].from_state = StateOf(devices, sn)
                        /\ Appended[i].to_state = "ACTIVE"
                        /\ Appended[i].event = "admin.reinstate"
                        /\ Appended[i].actor = "emergency:" \o resp'.reason
            /\ resp'.unlocked_count = Cardinality(was)
            /\ circuit_breaker'._state = "CLOSED"
            /\ circuit_breaker'._lock_timestamps = <<>>
            /\ current_count(circuit_breaker', now') = 0
    ]_vars

C14_Witness ==
    /\ op = "emergency_unlock"
    /\ resp.unlocked_count = 2
    /\ Len(audit_log) >= 2
    /\ { audit_log[i].from_state : i \in Len(audit_log) - 1 .. Len(audit_log) }
          = {"SOFT_LOCKED", "SUSPENDED"}
    /\ \A i \in Len(audit_log) - 1 .. Len(audit_log) :
          audit_log[i].actor = "emergency:emergency"
    /\ \A sn \in Serials : StateOf(devices, sn) = "ACTIVE"

OfSerial(list, sn) == SelectSeq(list, LAMBDA x : x.serial_number = sn)

\* C16: a delete_device(S) on a serial with a recorded state succeeds and
\* leaves S without state (get_policy(S) is 404), get_audit(S) and
\* get_commands(S) empty, no command of S stored, acknowledged or not, and
\* returns the numbers of records and commands removed; every other serial
\* keeps its state, audit records and commands; on a serial without a
\* recorded state it fails with 404 and changes nothing.
C16_DeleteCompleteness ==
    [][\A sn \in Serials :
          delete_device(sn) =>
             IF \E i \in DOMAIN devices : devices[i].key = sn
             THEN /\ resp'.status = "ok"
                  /\ PolicyResponse(devices', sn) = [status |-> "404"]
                  /\ records(audit_log', sn) = <<>>
                  /\ pending(command_queue', sn) = <<>>
                  /\ OfSerial(command_queue', sn) = <<>>
                  /\ resp'.removed_audit_records = Len(OfSerial(audit_log, sn))
                  /\ resp'.removed_commands = Len(OfSerial(command_queue, sn))
                  /\ Len(audit_log') = Len(audit_log) - resp'.removed_audit_records
                  /\ Len(command_queue')
                        = Len(command_queue) - resp'.removed_commands
                  /\ \A other \in Serials \ {sn} :
                        /\ PolicyResponse(devices', other)
                              = PolicyResponse(devices, other)
                        /\ OfSerial(audit_log', other) = OfSerial(audit_log, other)
                        /\ OfSerial(command_queue', other)
                              = OfSerial(command_queue, other)
             ELSE /\ resp'.status = "404"
                  /\ UNCHANGED <<Repository, circuit_breaker>>
    ]_vars

C16_Witness ==
    /\ op = "delete_device"
    /\ resp.status = "ok"
    /\ resp.removed_audit_records = 2
    /\ resp.removed_commands = 1
    /\ Len(audit_log) = 1
    /\ Len(command_queue) = 1
    /\ Len(devices) = 1

\* C17: ack_command on the id of a stored entry answers ok, sets that
\* entry's acknowledged flag and changes no other entry, no device state and
\* no audit record (so on an entry already acknowledged nothing changes);
\* on an id that is not stored, never issued or removed with its device, it
\* answers 404 and changes nothing.
C17_AckSetsOneFlag ==
    [][\A command_id \in CommandIds :
          ack_command(command_id) =>
             LET hits == {i \in DOMAIN command_queue :
                             command_queue[i].id = command_id}
             IN  IF hits # {}
                 THEN /\ Cardinality(hits) = 1
                      /\ resp' = [status |-> "ok", command_id |-> command_id]
                      /\ Len(command_queue') = Len(command_queue)
                      /\ \A i \in DOMAIN command_queue :
                            IF i \in hits
                            THEN command_queue'[i] =
                                   [command_queue[i] EXCEPT !.acknowledged = TRUE]
                            ELSE command_queue'[i] = command_queue[i]
                      /\ (\A i \in hits : command_queue[i].acknowledged)
                            => command_queue' = command_queue
                      /\ UNCHANGED <<devices, audit_log, processed_txns>>
                 ELSE /\ resp'.status = "404"
                      /\ UNCHANGED Repository
    ]_vars

C17_Witness ==
    /\ op = "ack_command"
    /\ resp.status = "ok"
    /\ Len(command_queue) = 2
    /\ \E i, j \in DOMAIN command_queue :
          /\ command_queue[i].id = resp.command_id
          /\ command_queue[i].acknowledged
          /\ ~command_queue[j].acknowledged

\* P is the list of the stored entries of serial sn that are not
\* acknowledged, each once, in the order they were enqueued (ids are handed
\* out in that order)
IsPendingOf(P, sn) ==
    /\ \A k \in DOMAIN P :
          /\ P[k].serial_number = sn
          /\ ~P[k].acknowledged
          /\ \E i \in DOMAIN command_queue : command_queue[i] = P[k]
    /\ \A i \in DOMAIN command_queue :
          (command_queue[i].serial_number = sn /\ ~command_queue[i].acknowledged)
             => \E k \in DOMAIN P : P[k] = command_queue[i]
    /\ \A k1, k2 \in DOMAIN P : k1 < k2 => P[k1].id < P[k2].id

\* C18: pending(serial) is exactly the stored entries of that serial with
\* acknowledged = false, in commit order, and get_commands returns it; an
\* acknowledged entry stays stored, acknowledged, until delete_device
\* removes its serial.
C18_PendingIsUnacknowledged ==
    [][/\ \A sn \in Serials : IsPendingOf(pending(command_queue, sn), sn)
       /\ \A sn \in Serials :
             get_commands(sn) =>
                /\ resp'.serial_number = sn
                /\ IsPendingOf(resp'.commands, sn)
                /\ command_queue' = command_queue
       /\ \A i \in DOMAIN command_queue :
             command_queue[i].acknowledged =>
                \/ \E j \in DOMAIN command_queue' :
                      command_queue'[j] = command_queue[i]
                \/ /\ op' = "delete_device"
                   /\ resp'.status = "ok"
                   /\ resp'.serial_number = command_queue[i].serial_number
    ]_vars

C18_Witness ==
    /\ op = "get_commands"
    /\ Len(resp.commands) = 1
    /\ Len(command_queue) = 2
    /\ \A i \in DOMAIN command_queue :
          command_queue[i].serial_number = resp.serial_number
    /\ command_queue[1].acknowledged
    /\ resp.commands = <<command_queue[2]>>

(***************************************************************************)
(* C19: evaluate_and_advance on an active rollout rolls back (status       *)
(* rolled_back, active = false, stage_index unchanged) iff error_rate >=   *)
(* error_rate_threshold or heartbeat_loss_rate >=                          *)
(* heartbeat_loss_threshold, both inclusive, the reason citing the error   *)
(* rate when both are breached; otherwise it promotes by exactly one stage *)
(* when stage_index < last, and at GA returns ga_complete with active =    *)
(* false.                                                                  *)
(***************************************************************************)
Evaluated(error_rate, heartbeat_loss_rate) ==
    /\ canary_rollout._active
    /\ op' = "evaluate_and_advance"
    /\ resp' = evaluate_and_advance(canary_rollout, error_rate,
                                    heartbeat_loss_rate)
    /\ canary_rollout' = evaluate_and_advance_effect(canary_rollout, error_rate,
                                                     heartbeat_loss_rate)

Breach(error_rate, heartbeat_loss_rate) ==
    \/ error_rate >= error_rate_threshold
    \/ heartbeat_loss_rate >= heartbeat_loss_threshold

C19_RollbackIffBreach ==
    [][\A error_rate \in Rates, heartbeat_loss_rate \in Rates :
         Evaluated(error_rate, heartbeat_loss_rate) =>
           /\ resp'.status = "rolled_back"
                <=> Breach(error_rate, heartbeat_loss_rate)
           /\ Breach(error_rate, heartbeat_loss_rate) =>
                /\ ~canary_rollout'._active
                /\ canary_rollout'._current_stage_index =
                     canary_rollout._current_stage_index
                /\ resp'.reason[1] =
                     IF error_rate >= error_rate_threshold
                     THEN "Error rate" ELSE "Heartbeat loss"
           /\ ( /\ ~Breach(error_rate, heartbeat_loss_rate)
                /\ canary_rollout._current_stage_index < 3 ) =>
                /\ resp'.status = "promoted"
                /\ canary_rollout'._active
                /\ canary_rollout'._current_stage_index =
                     canary_rollout._current_stage_index + 1
           /\ ( /\ ~Breach(error_rate, heartbeat_loss_rate)
                /\ canary_rollout._current_stage_index = 3 ) =>
                /\ resp'.status = "ga_complete"
                /\ ~canary_rollout'._active
                /\ canary_rollout'._current_stage_index = 3
      ]_vars

\* a rollout rolled back at BROAD by an error rate exactly on its threshold
C19_Witness ==
    /\ op = "evaluate_and_advance"
    /\ resp.status = "rolled_back"
    /\ resp.stage = "BROAD"
    /\ resp.reason = <<"Error rate", error_rate_threshold, ">=",
                       error_rate_threshold>>
    /\ ~canary_rollout._active
    /\ canary_rollout._current_stage_index = 2

(***************************************************************************)
(* C20: a rollout that sees only healthy evaluations visits CANARY,        *)
(* STAGED, BROAD, GA in order: exactly three evaluations return promoted   *)
(* and the fourth returns ga_complete and deactivates the rollout.         *)
(* stage_index is always within 0..3, within a rollout it never decreases  *)
(* and never skips a stage, and every rollout ends (rolled back or         *)
(* complete) after at most four evaluations.                               *)
(***************************************************************************)
Promotions(log) == Cardinality({i \in DOMAIN log : log[i] = "promoted"})

RolloutShape ==
    /\ canary_rollout._current_stage_index \in 0..3
    /\ Len(rollout_log) <= 4
    /\ \A i \in DOMAIN rollout_log :
         /\ i < Len(rollout_log) => rollout_log[i] = "promoted"
         /\ rollout_log[i] = "promoted" => i <= 3
         /\ rollout_log[i] = "ga_complete" => i = 4
         /\ rollout_log[i] \in {"promoted", "ga_complete", "rolled_back"}
    /\ canary_rollout._current_stage_index = Promotions(rollout_log)
    /\ canary_rollout._active =>
         \A i \in DOMAIN rollout_log : rollout_log[i] = "promoted"
    /\ ( /\ rollout_log # <<>>
         /\ rollout_log[Len(rollout_log)] # "promoted" ) =>
         ~canary_rollout._active
    /\ Len(rollout_log) = 4 => ~canary_rollout._active

RolloutStep ==
    ( /\ canary_rollout._active
      /\ op' = "evaluate_and_advance" ) =>
        /\ rollout_log' # rollout_log
        /\ canary_rollout'._current_stage_index \in
             {canary_rollout._current_stage_index,
              canary_rollout._current_stage_index + 1}
        /\ resp'.status = "promoted" =>
             /\ canary_rollout'._current_stage_index =
                  canary_rollout._current_stage_index + 1
             /\ resp'.stage =
                  stages[canary_rollout._current_stage_index + 2].name

C20_StagesInOrder == [](RolloutShape) /\ [][RolloutStep]_vars

\* a rollout completed by four healthy evaluations
C20_Witness ==
    /\ rollout_log = <<"promoted", "promoted", "promoted", "ga_complete">>
    /\ op = "evaluate_and_advance"
    /\ resp.status = "ga_complete"
    /\ ~canary_rollout._active
    /\ canary_rollout._current_stage_index = 3

(***************************************************************************)
(* C21: rollback is terminal for the rollout.  Once evaluate_and_advance   *)
(* has returned rolled_back (or ga_complete), every later                  *)
(* evaluate_and_advance returns no_active_rollout and changes neither      *)
(* active, version nor stage_index, whatever the metrics, until            *)
(* start_rollout is called; start_rollout always sets active = true and    *)
(* stage_index = 0.                                                        *)
(***************************************************************************)
RolloutEnded ==
    /\ rollout_log # <<>>
    /\ rollout_log[Len(rollout_log)] \in {"rolled_back", "ga_complete"}

EndedStep ==
    /\ ( /\ RolloutEnded
         /\ op' = "evaluate_and_advance" ) =>
         /\ resp' = [status |-> "no_active_rollout"]
         /\ canary_rollout' = canary_rollout
         /\ rollout_log' = rollout_log
    /\ ( /\ RolloutEnded
         /\ op' # "start_rollout" ) =>
         /\ RolloutEnded'
         /\ ~canary_rollout'._active
    /\ op' = "start_rollout" =>
         /\ canary_rollout'._active
         /\ canary_rollout'._current_stage_index = 0
         /\ canary_rollout'._version = resp'.version
         /\ ~RolloutEnded'

C21_RollbackIsTerminal ==
    [](RolloutEnded => ~canary_rollout._active) /\ [][EndedStep]_vars

\* an evaluation refused after a rollback at STAGED
C21_Witness ==
    /\ RolloutEnded
    /\ rollout_log = <<"promoted", "rolled_back">>
    /\ op = "evaluate_and_advance"
    /\ resp = [status |-> "no_active_rollout"]
    /\ ~canary_rollout._active
    /\ canary_rollout._current_stage_index = 1

(***************************************************************************)
(* C22: with requests handled concurrently, no partial write of an event   *)
(* is observable: no other request ever reads a device state written by an *)
(* event whose audit record (and command entry, when the entered state     *)
(* maps to a command) has not yet been appended.                           *)
(***************************************************************************)
\* thread u has written its new state and not yet appended all that goes
\* with it
PartialWrite(u) ==
    \/ threads[u].pc = "audit"
    \/ /\ threads[u].pc = "enqueue"
       /\ _state_to_command(threads[u].new_state) # None

\* thread t reads devices in this step
ReadsState(t) ==
    /\ threads[t].pc = "read"
    /\ threads'[t].pc # "read"

C22_NoPartialWriteObserved ==
    [][\A t, u \in Threads :
         ( /\ t # u
           /\ ReadsState(t)
           /\ PartialWrite(u) ) =>
             \/ threads[u].payload.serial_number #
                  threads[t].payload.serial_number
             \/ CurrentState(devices, threads[t].payload.serial_number) #
                  threads[u].new_state
      ]_vars

(***************************************************************************)
(* C23: every state change is preceded by its AuditRecord append, so no    *)
(* state exists in which a device's state has changed and the matching     *)
(* audit record is still missing: the state of every device is the         *)
(* to_state of the last audit record of its serial.                        *)
(***************************************************************************)
LastRecord(log, sn) ==
    LET own == OfSerial(log, sn) IN own[Len(own)]

C23_AuditPrecedesState ==
    \A sn \in Serials :
        HasKey(devices, sn) =>
            /\ OfSerial(audit_log, sn) # <<>>
            /\ LastRecord(audit_log, sn).to_state = DictGet(devices, sn, None)

(***************************************************************************)
(* C24: get_policy(S) returns device_state equal to S's current recorded   *)
(* state with the restrictions, lock_screen_message and protected_packages *)
(* of that state's policy template, so it reflects the last committed      *)
(* transition of S (all three restrictions true in SOFT_LOCKED,            *)
(* HARD_LOCKED, SUSPENDED, STOLEN_LOCKED; all false in ACTIVE,             *)
(* GRACE_PERIOD, PAID_OFF); it fails with NotFound iff S has no recorded   *)
(* state, and it never creates a device or changes any stored data.        *)
(***************************************************************************)
NotFound(r) == "status" \in DOMAIN r /\ r.status = "404"

AllRestrictions(r, value) ==
    /\ DOMAIN r = RestrictionKeys
    /\ \A k \in RestrictionKeys : r[k] = value

PolicyOf(sn, r) ==
    LET state_ == DictGet(devices, sn, None) IN
    /\ r.serial_number = sn
    /\ r.device_state = state_
    /\ r.device_state = LastRecord(audit_log, sn).to_state
    /\ r.restrictions = POLICY_TEMPLATES[state_].restrictions
    /\ r.lock_screen_message = POLICY_TEMPLATES[state_].lock_screen_message
    /\ r.protected_packages = POLICY_TEMPLATES[state_].protected_packages
    /\ state_ \in {"SOFT_LOCKED", "HARD_LOCKED", "SUSPENDED", "STOLEN_LOCKED"}
         => AllRestrictions(r.restrictions, TRUE)
    /\ state_ \in {"ACTIVE", "GRACE_PERIOD", "PAID_OFF"}
         => AllRestrictions(r.restrictions, FALSE)

\* get_policy on a store whose only device is in state s
PolicyInState(s) == PolicyResponse(DictSet(<<>>, "SN1", s), "SN1")

TemplatePerState ==
    \A s \in DeviceState :
        /\ PolicyInState(s).device_state = s
        /\ s \in {"SOFT_LOCKED", "HARD_LOCKED", "SUSPENDED", "STOLEN_LOCKED"}
             => AllRestrictions(PolicyInState(s).restrictions, TRUE)
        /\ s \in {"ACTIVE", "GRACE_PERIOD", "PAID_OFF"}
             => AllRestrictions(PolicyInState(s).restrictions, FALSE)

C24_PolicyReflectsState ==
    /\ [](TemplatePerState)
    /\ [][\A sn \in Serials :
         get_policy(sn) =>
           /\ NotFound(resp') <=> ~HasKey(devices, sn)
           /\ HasKey(devices, sn) => PolicyOf(sn, resp')
           /\ UNCHANGED <<Repository, circuit_breaker, next_id>>
      ]_vars

\* the policy of a device that three events took to SOFT_LOCKED
C24_Witness ==
    /\ op = "get_policy"
    /\ ~NotFound(resp)
    /\ resp.device_state = "SOFT_LOCKED"
    /\ DictGet(devices, resp.serial_number, None) = "SOFT_LOCKED"
    /\ AllRestrictions(resp.restrictions, TRUE)
    /\ Len(OfSerial(audit_log, resp.serial_number)) = 3

(***************************************************************************)
(* C25: determinism.  For any fixed per-serial event sequences on distinct *)
(* serials (transaction ids absent), every interleaving of those sequences *)
(* yields the same final state for each serial: the one the interleaving   *)
(* "all of SN1, then all of SN2" yields.                                   *)
(***************************************************************************)
AllSent == \A sn \in Serials : clients.sent[sn] = Len(clients.script[sn])

\* the stores the clients started from: the fleet in GRACE_PERIOD and the
\* breaker as constructed
StartStores ==
    [devices |-> << [key |-> "SN1", value |-> "GRACE_PERIOD"],
                    [key |-> "SN2", value |-> "GRACE_PERIOD"] >>,
     circuit_breaker |->
       CircuitBreaker(circuit_breaker.max_locks_in_window,
                      circuit_breaker.window_seconds,
                      circuit_breaker.cooldown_seconds)]

OneAfterTheOther ==
    RunScript(RunScript(StartStores, now, "SN1", clients.script["SN1"]),
              now, "SN2", clients.script["SN2"])

C25_SameFinalStateInEveryInterleaving ==
    AllSent =>
        \A sn \in Serials :
            StateOf(devices, sn) = StateOf(OneAfterTheOther.devices, sn)

\* the state the table leads to from state f along the events of script,
\* an event the table does not allow in the state reached leaving it as it is
RECURSIVE TablePath(_, _)
TablePath(f, script) ==
    IF script = <<>>
    THEN f
    ELSE TablePath(IF TableTarget[f, Head(script)] = "<none>"
                   THEN f ELSE TableTarget[f, Head(script)],
                   Tail(script))

\* amended: as long as the breaker has refused no call, the state of each
\* serial is the one the table leads to along the events its own client
\* has sent, whatever the other client has sent in between
C25_SameStateUnlessBreakerRefuses ==
    ~clients.refused =>
        \A sn \in Serials :
            StateOf(devices, sn) =
              TablePath("GRACE_PERIOD",
                        SubSeq(clients.script[sn], 1, clients.sent[sn]))

\* two clients have each sent two events, none refused, one device locked
C25_Witness ==
    /\ AllSent
    /\ ~clients.refused
    /\ \A sn \in Serials : clients.sent[sn] = 2
    /\ StateOf(devices, "SN1") = "SOFT_LOCKED"
    /\ StateOf(devices, "SN2") = "ACTIVE"
    /\ clients.script["SN1"] # clients.script["SN2"]

(***************************************************************************)
(* C26: with requests handled concurrently the breaker state remains       *)
(* consistent: with threshold max and no reset, concurrent handle_event    *)
(* calls never commit more than max transitions into SOFT_LOCKED or        *)
(* HARD_LOCKED within one window, and no lock-producing transition commits *)
(* after the breaker has tripped OPEN.                                     *)
(***************************************************************************)
\* the lock-producing transitions committed: the audit records into the two
\* lock states
LockCommits ==
    SelectSeq(audit_log,
              LAMBDA r : r.to_state \in {"SOFT_LOCKED", "HARD_LOCKED"})

\* thread t records its lock in this step, on its way to the state write
RecordsLock(t) ==
    /\ threads[t].pc = "record"
    /\ threads'[t].pc = "write"

C26_BreakerConsistentUnderConcurrency ==
    /\ []( ( /\ last_reset = "none"
             /\ now < circuit_breaker.window_seconds ) =>
             Len(LockCommits) <= circuit_breaker.max_locks_in_window )
    /\ [][\A t \in Threads :
            RecordsLock(t) => circuit_breaker._state = "CLOSED"]_vars

(***************************************************************************)
(* C27: for every serial S, after any sequence of handle_event,            *)
(* emergency_unlock, ack_command and delete_device calls made one after    *)
(* another, S's audit records in insertion order form a chain consistent   *)
(* with its state: the first record since S was created (or last deleted)  *)
(* has from_state PROVISIONING, each later record's from_state equals the  *)
(* previous record's to_state, and the last record's to_state equals S's   *)
(* current recorded state.                                                 *)
(***************************************************************************)
AuditChain(sn) ==
    LET own == OfSerial(audit_log, sn) IN
    /\ own # <<>> => own[1].from_state = "PROVISIONING"
    /\ \A i \in 2..Len(own) : own[i].from_state = own[i - 1].to_state
    /\ own # <<>> =>
         /\ HasKey(devices, sn)
         /\ own[Len(own)].to_state = DictGet(devices, sn, None)
    /\ HasKey(devices, sn) => own # <<>>

C27_AuditChainMatchesState == \A sn \in Serials : AuditChain(sn)

\* a serial with a state again after its deletion: an event with a
\* transaction id was applied to it, and its chain holds one record, of a
\* later event without one
C27_Witness ==
    \E sn \in Serials :
        /\ Len(OfSerial(applied, sn)) = 1
        /\ Len(OfSerial(audit_log, sn)) = 1
        /\ OfSerial(audit_log, sn)[1].transaction_id = None
        /\ HasKey(devices, sn)
        /\ op = "handle_event"
        /\ resp.status = "ok"
        /\ resp.serial_number = sn

(***************************************************************************)
(* C28: the processed-transaction set only grows: no operation removes an  *)
(* id from it, neither delete_device nor emergency_unlock, so after a      *)
(* device is deleted an event that reuses a transaction_id applied before  *)
(* the deletion still returns Duplicate and does not recreate the device.  *)
(***************************************************************************)
ReusesTxn(payload) ==
    /\ op' = "handle_event"
    /\ payload.transaction_id \in processed_txns
    /\ handle_event(payload)

C28_ProcessedTxnsOnlyGrow ==
    [][/\ processed_txns \subseteq processed_txns'
       /\ op' \in {"delete_device", "emergency_unlock"} =>
            processed_txns' = processed_txns
       /\ \A payload \in EventPayload :
            ReusesTxn(payload) =>
              /\ resp'.status = "duplicate"
              /\ UNCHANGED Repository
              /\ HasKey(devices', payload.serial_number) =
                   HasKey(devices, payload.serial_number)
      ]_vars

\* the only device was deleted, and an event reusing the transaction id
\* applied to it has been answered
C28_Witness ==
    /\ op = "handle_event"
    /\ resp.status = "duplicate"
    /\ devices = <<>>
    /\ audit_log = <<>>
    /\ Len(applied) = 1
    /\ resp.transaction_id = applied[1].transaction_id
    /\ resp.transaction_id \in processed_txns

(***************************************************************************)
(* C29: DECOMMISSIONED is absorbing.  Once a device is DECOMMISSIONED its  *)
(* state never changes again under any handle_event or emergency_unlock:   *)
(* every event other than admin.decommission is rejected with              *)
(* InvalidTransition (409), and admin.decommission keeps it                *)
(* DECOMMISSIONED; only delete_device removes it.  admin.decommission with *)
(* an unused transaction_id succeeds from every state and for an unknown   *)
(* serial, whatever the breaker state.                                     *)
(***************************************************************************)
Decommissioned(sn) == DictGet(devices, sn, None) = "DECOMMISSIONED"

\* a decommissioned device keeps its state, or is deleted
StaysDecommissioned(sn) ==
    Decommissioned(sn) =>
        \/ DictGet(devices', sn, None) = "DECOMMISSIONED"
        \/ /\ op' = "delete_device"
           /\ resp' = [status |-> "ok", serial_number |-> sn,
                       removed_audit_records |-> CountSerial(audit_log, sn),
                       removed_commands |-> CountSerial(command_queue, sn)]
           /\ ~HasKey(devices', sn)

Sent(payload) ==
    /\ op' = "handle_event"
    /\ handle_event_upto(payload, MaxRetireAudit, MaxRetireIds)

\* what a decommissioned device answers to an event other than
\* admin.decommission; replayed tells whether the event carries a
\* transaction id that was already processed
Rejected(payload, replayed) ==
    ( /\ Decommissioned(payload.serial_number)
      /\ payload.event_type # "admin.decommission"
      /\ Sent(payload) ) =>
        /\ resp'.status = IF replayed THEN "duplicate" ELSE "409"
        /\ UNCHANGED <<Repository, circuit_breaker>>

\* admin.decommission with an unused transaction id, or none
DecommissionSucceeds(payload) ==
    ( /\ payload.event_type = "admin.decommission"
      /\ payload.transaction_id \notin processed_txns
      /\ Sent(payload) ) =>
        /\ resp'.status = "ok"
        /\ resp'.from_state = StateOf(devices, payload.serial_number)
        /\ resp'.to_state = "DECOMMISSIONED"
        /\ DictGet(devices', payload.serial_number, None) = "DECOMMISSIONED"
        /\ circuit_breaker' = circuit_breaker

\* the transition decision, in each of the nine states and on each event
DecommissionDecision ==
    /\ \A s \in DeviceState :
         /\ NewState(s, "admin.decommission") = "DECOMMISSIONED"
         /\ ~IsLockTransition(NewState(s, "admin.decommission"))
    /\ \A e \in EventType \ {"admin.decommission"} :
         NewState("DECOMMISSIONED", e) = Invalid
    /\ "DECOMMISSIONED" \notin locked_states

C29_DecommissionedRejectsWith409 ==
    [][/\ \A sn \in Serials : StaysDecommissioned(sn)
       /\ \A payload \in RetirePayload :
            /\ Rejected(payload, FALSE)
            /\ DecommissionSucceeds(payload)
      ]_vars

\* amended: an event that replays a processed transaction id is answered
\* duplicate, as on every other device
C29_DecommissionedIsAbsorbing ==
    /\ [](DecommissionDecision)
    /\ [][/\ \A sn \in Serials : StaysDecommissioned(sn)
          /\ \A payload \in RetirePayload :
               /\ Rejected(payload,
                           payload.transaction_id \in processed_txns)
               /\ DecommissionSucceeds(payload)
         ]_vars

\* with the breaker OPEN a device was decommissioned under a transaction
\* id, and a later event on a fleet wholly out of service replays that id
C29_Witness ==
    /\ \A sn \in Serials : Decommissioned(sn)
    /\ circuit_breaker._state = "OPEN"
    /\ op = "handle_event"
    /\ resp.status = "duplicate"
    /\ Len(applied) = 1
    /\ applied[1].event_type = "admin.decommission"
    /\ \E i \in DOMAIN audit_log :
         /\ audit_log[i].transaction_id = applied[1].transaction_id
         /\ audit_log[i].from_state = "SOFT_LOCKED"
         /\ audit_log[i].to_state = "DECOMMISSIONED"

====
